---- MODULE Spec2Model ----
(***************************************************************************)
(* UnisonAI: the per-agent loop (Agent.unleash), tool dispatch             *)
(* (Agent.execute_tool_call), clan message routing (Agent.send_message,    *)
(* Agent._get_agent_by_name) and the clan wiring (Clan.__init__).          *)
(*                                                                         *)
(* Text is modelled at two levels.  Agent names are sequences of           *)
(* characters, so that lower(), strip(), replace() and difflib's           *)
(* similarity are computed as Python computes them.  Model responses are   *)
(* sequences of tokens: "<think>", "</think>", "<tool>", "</tool>",        *)
(* whitespace, words, and call texts.                                      *)
(***************************************************************************)
EXTENDS Naturals, Sequences, FiniteSets

\* ------------------------------------------------------------------------
\* Character strings (Python str) as sequences of one-character strings
\* ------------------------------------------------------------------------

UpperChars == <<"A","B","C","D","E","F","G","H","I","J","K","L","M",
                "N","O","P","Q","R","S","T","U","V","W","X","Y","Z">>

LowerChars == <<"a","b","c","d","e","f","g","h","i","j","k","l","m",
                "n","o","p","q","r","s","t","u","v","w","x","y","z">>

\* The characters of the model in code point order (str comparison).
CodePoints == <<" ", "-", "/">> \o UpperChars \o LowerChars

Ord(c) == CHOOSE i \in 1..Len(CodePoints) : CodePoints[i] = c

\* str.lower() on one character
LowerChar(c) ==
  IF \E i \in 1..Len(UpperChars) : UpperChars[i] = c
  THEN LowerChars[CHOOSE i \in 1..Len(UpperChars) : UpperChars[i] = c]
  ELSE c

\* str.lower()
Lower(s) == [i \in 1..Len(s) |-> LowerChar(s[i])]

IsSpace(c) == c \in {" ", "\t", "\n", "\r"}

RECURSIVE LStrip(_)
LStrip(s) == IF s # <<>> /\ IsSpace(Head(s)) THEN LStrip(Tail(s)) ELSE s

RECURSIVE RStrip(_)
RStrip(s) ==
  IF s # <<>> /\ IsSpace(s[Len(s)]) THEN RStrip(SubSeq(s, 1, Len(s) - 1)) ELSE s

\* str.strip()
Strip(s) == RStrip(LStrip(s))

\* s[i:].startswith(p), i a 0-based offset
StartsWithAt(s, i, p) ==
  /\ i + Len(p) <= Len(s)
  /\ \A k \in 1..Len(p) : s[i + k] = p[k]

\* str.replace(p, ""): every non-overlapping occurrence, left to right
RECURSIVE RemoveFrom(_, _, _)
RemoveFrom(s, i, p) ==
  IF i >= Len(s) THEN <<>>
  ELSE IF StartsWithAt(s, i, p) THEN RemoveFrom(s, i + Len(p), p)
  ELSE <<s[i + 1]>> \o RemoveFrom(s, i + 1, p)

Remove(s, p) == RemoveFrom(s, 0, p)

\* Python's str < str
RECURSIVE StrLess(_, _)
StrLess(s, t) ==
  IF t = <<>> THEN FALSE
  ELSE IF s = <<>> THEN TRUE
  ELSE IF Head(s) = Head(t) THEN StrLess(Tail(s), Tail(t))
  ELSE Ord(Head(s)) < Ord(Head(t))

\* ------------------------------------------------------------------------
\* difflib.SequenceMatcher (no junk; autojunk needs 200 characters)
\* ------------------------------------------------------------------------

\* The length of the common run a[i:], b[j:] inside a[:ahi], b[:bhi]
\* (0-based offsets).
RECURSIVE RunLen(_, _, _, _, _, _)
RunLen(a, b, i, j, ahi, bhi) ==
  IF i < ahi /\ j < bhi /\ a[i + 1] = b[j + 1]
  THEN 1 + RunLen(a, b, i + 1, j + 1, ahi, bhi)
  ELSE 0

\* SequenceMatcher.find_longest_match: the longest block, of those the one
\* that starts earliest in a, of those the one that starts earliest in b.
find_longest_match(a, b, alo, ahi, blo, bhi) ==
  LET I == alo..(ahi - 1)
      J == blo..(bhi - 1)
      best == IF I = {} \/ J = {} THEN 0
              ELSE CHOOSE k \in 0..(ahi - alo) :
                     /\ \E i \in I, j \in J : RunLen(a, b, i, j, ahi, bhi) = k
                     /\ \A i \in I, j \in J : RunLen(a, b, i, j, ahi, bhi) <= k
  IN IF best = 0 THEN [i |-> alo, j |-> blo, k |-> 0]
     ELSE LET bi == CHOOSE i \in I :
                      /\ \E j \in J : RunLen(a, b, i, j, ahi, bhi) = best
                      /\ \A i2 \in I :
                           (\E j \in J : RunLen(a, b, i2, j, ahi, bhi) = best)
                             => i <= i2
              bj == CHOOSE j \in J :
                      /\ RunLen(a, b, bi, j, ahi, bhi) = best
                      /\ \A j2 \in J :
                           RunLen(a, b, bi, j2, ahi, bhi) = best => j <= j2
          IN [i |-> bi, j |-> bj, k |-> best]

\* The sum of the sizes of SequenceMatcher.get_matching_blocks()
RECURSIVE Matches(_, _, _, _, _, _)
Matches(a, b, alo, ahi, blo, bhi) ==
  LET m == find_longest_match(a, b, alo, ahi, blo, bhi)
  IN IF m.k = 0 THEN 0
     ELSE m.k
          + (IF alo < m.i /\ blo < m.j
             THEN Matches(a, b, alo, m.i, blo, m.j) ELSE 0)
          + (IF m.i + m.k < ahi /\ m.j + m.k < bhi
             THEN Matches(a, b, m.i + m.k, ahi, m.j + m.k, bhi) ELSE 0)

\* SequenceMatcher.ratio() = 2.0 * M / T, kept as the pair (M, T)
MatchCount(a, b) == Matches(a, b, 0, Len(a), 0, Len(b))

\* cutoff=0.6 as CutoffNum / CutoffDen
CutoffNum == 6

CutoffDen == 10

\* (score, x) of one possibility: the score 2.0 * m / t kept as the pair
\* (m, t), 1.0 when both strings are empty
Scored(x, word) ==
  IF Len(x) + Len(word) = 0 THEN [m |-> 1, t |-> 2, x |-> x]
  ELSE [m |-> MatchCount(x, word), t |-> Len(x) + Len(word), x |-> x]

\* s.ratio() >= cutoff
ClearsCutoff(s) == 2 * s.m * CutoffDen >= CutoffNum * s.t

\* (score, x) < (score, x) as Python compares tuples
ScoredLess(p, q) ==
  \/ p.m * q.t < q.m * p.t
  \/ p.m * q.t = q.m * p.t /\ StrLess(p.x, q.x)

\* heapq.nlargest(1, result)
nlargest(result) ==
  IF result = {} THEN <<>>
  ELSE <<(CHOOSE p \in result : \A q \in result : ~ScoredLess(p, q)).x>>

\* difflib.get_close_matches(word, possibilities, n=1, cutoff=0.6): the
\* possibilities that clear the cutoff, the largest (score, x) of them
\* first; <<>> when there is none.
get_close_matches(word, possibilities) ==
  nlargest({s \in {Scored(possibilities[i], word) :
                     i \in 1..Len(possibilities)} : ClearsCutoff(s)})

\* list.index(x): the first position, 1-based
IndexOf(list, x) ==
  CHOOSE i \in 1..Len(list) :
    list[i] = x /\ \A j \in 1..(i - 1) : list[j] # x

InList(list, x) == \E i \in 1..Len(list) : list[i] = x

\* ------------------------------------------------------------------------
\* Python values: a str (v: the text), an int (v: its repr), None, an
\* exception (v: its message) and the pair ("__PASS_RESULT__", payload)
\* ------------------------------------------------------------------------

Str(s) == [ty |-> "str", v |-> s]

Int(s) == [ty |-> "int", v |-> s]

NoneValue == [ty |-> "none", v |-> <<>>]

Exc(msg) == [ty |-> "exc", v |-> msg]

\* The pair ("__PASS_RESULT__", payload) and its second component
PassPair(payload) ==
  [ty |-> CASE payload.ty = "str" -> "pass_str"
            [] payload.ty = "int" -> "pass_int"
            [] OTHER -> "pass_none",
   v |-> payload.v]

PassPayload(pair) ==
  [ty |-> CASE pair.ty = "pass_str" -> "str"
            [] pair.ty = "pass_int" -> "int"
            [] OTHER -> "none",
   v |-> pair.v]

\* str(value), as an f-string renders it
Render(val) == IF val.ty = "none" THEN <<"None">> ELSE val.v

\* f"Error: {e}"
ErrorText(e) == Str(<<"Error: ">> \o e.v)

\* ------------------------------------------------------------------------
\* Agents
\* ------------------------------------------------------------------------

Agents == {"ann", "bob", "mgr", "the", "bob2"}

sAnn == <<"A","n","n">>

sBob == <<"B","o","b">>

sCEOManager == <<"C","E","O","/","M","a","n","a","g","e","r">>

sTheA == <<"T","h","e"," ","A">>

\* Agent.identity, given to the constructor
identity(a) ==
  CASE a = "ann" -> sAnn
    [] a = "bob" -> sBob
    [] a = "mgr" -> sCEOManager
    [] a = "the" -> sTheA
    [] a = "bob2" -> sBob

\* Agent.rawtools: the names of the tools given to the constructor
rawtools(a) ==
  CASE a = "ann" -> <<"add", "boom">>
    [] a = "bob" -> <<"add">>
    [] a = "the" -> <<"pass_result">>
    [] OTHER -> <<>>

\* ------------------------------------------------------------------------
\* Agent._get_agent_by_name and Agent.send_message
\* ------------------------------------------------------------------------

ceo_variations ==
  << <<"c","e","o">>,
     <<"m","a","n","a","g","e","r">>,
     <<"c","e","o","/","m","a","n","a","g","e","r">>,
     <<"c","e","o","-","m","a","n","a","g","e","r">> ,
     <<"c","e","o"," ","m","a","n","a","g","e","r">> >>

prefixes ==
  << <<"a","g","e","n","t"," ">>,
     <<" ","a","g","e","n","t">>,
     <<"t","h","e"," ">> >>

\* clean = agent_name.lower().strip(), then the three replace() calls
CleanName(agent_name) ==
  Remove(Remove(Remove(Strip(Lower(agent_name)), prefixes[1]),
                prefixes[2]), prefixes[3])

\* names = [m.identity for m in self.rawmembers]
MemberNames(members) == [i \in 1..Len(members) |-> identity(members[i])]

\* The lookups of _get_agent_by_name on clean, names and names_lower
Lookup(clean, names, names_lower, agent_name) ==
  IF InList(ceo_variations, clean) THEN sCEOManager
  ELSE IF InList(names_lower, clean)
       THEN names[IndexOf(names_lower, clean)]
  ELSE IF get_close_matches(clean, names_lower) # <<>>
       THEN names[IndexOf(names_lower,
                          get_close_matches(clean, names_lower)[1])]
  ELSE agent_name

LowerAll(names) == [i \in 1..Len(names) |-> Lower(names[i])]

\* Agent._get_agent_by_name(agent_name), members = self.rawmembers
get_agent_by_name(members, agent_name) ==
  Lookup(CleanName(agent_name), MemberNames(members),
         LowerAll(MemberNames(members)), agent_name)

\* is_manager = matched in ["CEO/Manager", "Manager", "CEO"]
ManagerNames ==
  { sCEOManager, <<"M","a","n","a","g","e","r">>, <<"C","E","O">> }

\* Variant: a loop that falls through hands the message to the first member
send_target_default(members, ask_user_of, matched) ==
  IF \E i \in 1..Len(members) :
       \/ matched \in { sCEOManager, <<"C","E","O">> } /\ ask_user_of[members[i]]
       \/ identity(members[i]) = matched
  THEN CHOOSE i \in 1..Len(members) :
         /\ \/ matched \in { sCEOManager, <<"C","E","O">> } /\ ask_user_of[members[i]]
            \/ identity(members[i]) = matched
         /\ \A j \in 1..(i - 1) :
              ~(\/ matched \in { sCEOManager, <<"C","E","O">> } /\ ask_user_of[members[j]]
                \/ identity(members[j]) = matched)
  ELSE IF members = <<>> THEN 0 ELSE 1

\* The for loop of send_message: the position in the roster of the first
\* member that takes the message, 0 when the loop falls through.
send_target(members, ask_user_of, matched) ==
  LET is_manager == matched \in ManagerNames
      takes(i) == \/ is_manager /\ ask_user_of[members[i]]
                  \/ identity(members[i]) = matched
  IN IF \E i \in 1..Len(members) : takes(i)
     THEN CHOOSE i \in 1..Len(members) :
            takes(i) /\ \A j \in 1..(i - 1) : ~takes(j)
     ELSE 0

\* msg = f"FROM: {sender} | {message}" (+ "\nRESOURCE: ..." when given)
TaggedMessage(sender, message, additional_resource) ==
  <<"FROM: ">> \o sender \o <<" | ">> \o Render(message)
    \o (IF additional_resource.ty = "none" \/ additional_resource.v = <<>>
        THEN <<>>
        ELSE <<"\n", "RESOURCE: ">> \o Render(additional_resource))

Delivered(matched) == Str(<<"Message delivered to ">> \o matched \o <<".">>)

NotFound(agent_name) ==
  Str(<<"Agent '">> \o agent_name \o <<"' not found in clan.">>)

\* ------------------------------------------------------------------------
\* Model text as tokens: extraction and the final answer
\* ------------------------------------------------------------------------

IsBlank(tok) == tok \in {" ", "\n"}

RECURSIVE LStripTokens(_)
LStripTokens(s) ==
  IF s # <<>> /\ IsBlank(Head(s)) THEN LStripTokens(Tail(s)) ELSE s

RECURSIVE RStripTokens(_)
RStripTokens(s) ==
  IF s # <<>> /\ IsBlank(s[Len(s)])
  THEN RStripTokens(SubSeq(s, 1, Len(s) - 1)) ELSE s

\* str.strip() on a token text
StripTokens(s) == RStripTokens(LStripTokens(s))

\* The first position >= from of token tok, 0 when there is none
FirstAt(s, tok, from) ==
  IF \E i \in from..Len(s) : s[i] = tok
  THEN CHOOSE i \in from..Len(s) :
         s[i] = tok /\ \A j \in from..(i - 1) : s[j] # tok
  ELSE 0

\* re.findall(r"<tool>(.*?)</tool>", content, re.DOTALL) from position from
RECURSIVE FindAllTools(_, _)
FindAllTools(content, from) ==
  LET open == FirstAt(content, "<tool>", from)
      close == IF open = 0 THEN 0 ELSE FirstAt(content, "</tool>", open + 1)
  IN IF open = 0 \/ close = 0 THEN <<>>
     ELSE <<SubSeq(content, open + 1, close - 1)>>
            \o FindAllTools(content, close + 1)

\* Variant: the regions as found, not trimmed
extract_all_tool_calls_untrimmed(content) == FindAllTools(content, 1)

\* Agent.extract_all_tool_calls
extract_all_tool_calls(content) ==
  LET found == FindAllTools(content, 1)
  IN [i \in 1..Len(found) |-> StripTokens(found[i])]

\* re.sub(r"<think>.*?</think>", "", response, flags=re.DOTALL)
RECURSIVE RemoveThink(_, _)
RemoveThink(response, from) ==
  LET open == FirstAt(response, "<think>", from)
      close == IF open = 0 THEN 0 ELSE FirstAt(response, "</think>", open + 1)
  IN IF open = 0 \/ close = 0 THEN SubSeq(response, from, Len(response))
     ELSE SubSeq(response, from, open - 1) \o RemoveThink(response, close + 1)

\* Variant: the think blocks removed, the remainder as it is
FinalAnswer_untrimmed(response) == RemoveThink(response, 1)

\* answer = re.sub(...).strip()
FinalAnswer(response) == StripTokens(RemoveThink(response, 1))

\* The f-string "Tool (call) returned:" + newline + str(result), the call
\* between backquotes (the token BACKQUOTE)
ToolOutput(call, result) ==
  <<"Tool ", "BACKQUOTE">> \o call \o <<"BACKQUOTE", " returned:", "\n">> \o Render(result)

\* "\n\n".join(tool_outputs)
RECURSIVE JoinOutputs(_)
JoinOutputs(outs) ==
  IF outs = <<>> THEN <<>>
  ELSE IF Len(outs) = 1 THEN outs[1]
  ELSE outs[1] \o <<"\n", "\n">> \o JoinOutputs(Tail(outs))

\* ------------------------------------------------------------------------
\* Call texts: _sanitize_tool_call and ast.parse on the sampled texts
\* ------------------------------------------------------------------------

sHi == Str(<<"hi">>)

\* The names the sampled send_message calls address, by call text
SendCalls ==
  << [text |-> "send_message(agent_name=\"the Manager\", message=\"hi\")",
      name |-> <<"t","h","e"," ","M","a","n","a","g","e","r">>],
     [text |-> "send_message(agent_name=\"CEO\", message=\"hi\")",
      name |-> <<"C","E","O">>],
     [text |-> "send_message(agent_name=\"bob\", message=\"hi\")",
      name |-> <<"b","o","b">>],
     [text |-> "send_message(agent_name=\"Bobb\", message=\"hi\")",
      name |-> <<"B","o","b","b">>],
     [text |-> "send_message(agent_name=\"Zzyx\", message=\"hi\")",
      name |-> <<"Z","z","y","x">>],
     [text |-> "send_message(agent_name=\"The A\", message=\"hi\")",
      name |-> sTheA],
     [text |-> "send_message(agent_name=\"the a\", message=\"hi\")",
      name |-> <<"t","h","e"," ","a">>] >>

SendTexts == {SendCalls[i].text : i \in 1..Len(SendCalls)}

SendName(text) ==
  SendCalls[CHOOSE i \in 1..Len(SendCalls) : SendCalls[i].text = text].name

\* ast nodes: a keyword (arg=value) whose value is a literal or not
KW(arg, value) == [arg |-> arg, lit |-> TRUE, value |-> value]

NonLiteralKW(arg) == [arg |-> arg, lit |-> FALSE, value |-> NoneValue]

\* a positional argument, a literal or not
Arg(value) == [arg |-> "", lit |-> TRUE, value |-> value]

NonLiteralArg == [arg |-> "", lit |-> FALSE, value |-> NoneValue]

\* a call with keyword arguments only; func is tree.body.func.id
CallNode(func, keywords) ==
  [kind |-> "Call", func |-> func, args |-> <<>>, keywords |-> keywords]

\* a call with positional arguments (tree.body.args)
CallNodeArgs(func, args, keywords) ==
  [kind |-> "Call", func |-> func, args |-> args, keywords |-> keywords]

\* an expression that is no call
ExprNode == [kind |-> "Expr", func |-> "", args |-> <<>>, keywords |-> <<>>]

\* ast.parse raised SyntaxError
SyntaxErrorNode ==
  [kind |-> "SyntaxError", func |-> "", args |-> <<>>, keywords |-> <<>>]

\* Agent._sanitize_tool_call: the repair cascade, on the sampled texts (a
\* missing closing parenthesis is appended; the others come back as given)
sanitize_tool_call(raw) ==
  IF raw = <<"add(a=1, b=2">> THEN <<"add(a=1, b=2)">> ELSE raw

\* ast.parse(clean, mode=eval) on the sampled texts
ast_parse(clean) ==
  IF Len(clean) # 1 THEN SyntaxErrorNode
  ELSE LET t == clean[1]
       IN CASE t = "add(a=1, b=2)" ->
                 CallNode("add", <<KW("a", Int(<<"1">>)), KW("b", Int(<<"2">>))>>)
            [] t = "add(a=x, b=2)" ->
                 CallNode("add", <<NonLiteralKW("a"), KW("b", Int(<<"2">>))>>)
            [] t = "boom()" -> CallNode("boom", <<>>)
            [] t = "add(1, 2)" ->
                 CallNodeArgs("add", <<Arg(Int(<<"1">>)), Arg(Int(<<"2">>))>>, <<>>)
            [] t = "add(a=1)" -> CallNode("add", <<KW("a", Int(<<"1">>))>>)
            [] t = "add(a=\"x\", b=\"y\")" ->
                 CallNode("add", <<KW("a", Str(<<"x">>)), KW("b", Str(<<"y">>))>>)
            [] t = "add(a=\"x\", b=2)" ->
                 CallNode("add", <<KW("a", Str(<<"x">>)), KW("b", Int(<<"2">>))>>)
            [] t = "add(a=1, b=2, c=1)" ->
                 CallNode("add", <<KW("a", Int(<<"1">>)), KW("b", Int(<<"2">>)),
                                   KW("c", Int(<<"1">>))>>)
            [] t = "add(x, 2)" ->
                 CallNodeArgs("add", <<NonLiteralArg, Arg(Int(<<"2">>))>>, <<>>)
            [] t \in {"add(a=f(1), b=2)", "add(a=os.sep, b=2)", "add(a=x+1, b=2)"} ->
                 CallNode("add", <<NonLiteralKW("a"), KW("b", Int(<<"2">>))>>)
            [] t = "Add(a=1, b=2)" ->
                 CallNode("Add", <<KW("a", Int(<<"1">>)), KW("b", Int(<<"2">>))>>)
            [] t = "x.add(a=1, b=2)" ->
                 CallNode("add", <<KW("a", Int(<<"1">>)), KW("b", Int(<<"2">>))>>)
            [] t = "pass_result(\"done\")" ->
                 CallNodeArgs("pass_result", <<Arg(Str(<<"done">>))>>, <<>>)
            [] t = "pass_result(result=x)" ->
                 CallNode("pass_result", <<NonLiteralKW("result")>>)
            [] t = "send_message(\"bob\", \"hi\")" ->
                 CallNodeArgs("send_message",
                              <<Arg(Str(<<"b","o","b">>)), Arg(sHi)>>, <<>>)
            [] t = "send_message(agent_name=bob, message=\"hi\")" ->
                 CallNode("send_message",
                          <<NonLiteralKW("agent_name"), KW("message", sHi)>>)
            [] t = "ask_user(question=q)" ->
                 CallNode("ask_user", <<NonLiteralKW("question")>>)
            [] t = "nosuch(q=1)" -> CallNode("nosuch", <<KW("q", Int(<<"1">>))>>)
            [] t = "42" -> ExprNode
            [] t = "ask_user(question=\"q\")" ->
                 CallNode("ask_user", <<KW("question", Str(<<"q">>))>>)
            [] t = "pass_result(result=\"done\")" ->
                 CallNode("pass_result", <<KW("result", Str(<<"done">>))>>)
            [] t = "pass_result(result=\"\\x3cthink>t\\x3c/think>\\x3ctool>add(a=1, b=2)\\x3c/tool>\")" ->
                 CallNode("pass_result",
                          <<KW("result",
                               Str(<<"<think>", "t", "</think>",
                                     "<tool>", "add(a=1, b=2)", "</tool>">>))>>)
            [] t = "pass_result()" -> CallNode("pass_result", <<>>)
            [] t = "send_message(message=\"hi\")" ->
                 CallNode("send_message", <<KW("message", sHi)>>)
            [] t = "send_message(agent_name=\"bob\", message=\"hi\", sender=\"Bob\")" ->
                 CallNode("send_message",
                          <<KW("agent_name", Str(<<"b","o","b">>)),
                            KW("message", sHi), KW("sender", Str(sBob))>>)
            [] t = "send_message(agent_name=\"ann\", message=\"FROM: Bob | hi\", additional_resource=\"FROM: Bob\", sender=\"Bob\")" ->
                 CallNode("send_message",
                          <<KW("agent_name", Str(<<"a","n","n">>)),
                            KW("message", Str(<<"FROM: ">> \o sBob \o <<" | ", "hi">>)),
                            KW("additional_resource", Str(<<"FROM: ">> \o sBob)),
                            KW("sender", Str(sBob))>>)
            [] t \in SendTexts ->
                 CallNode("send_message",
                          <<KW("agent_name", Str(SendName(t))), KW("message", sHi)>>)
            [] OTHER -> SyntaxErrorNode

\* kwargs.get(key, default) on {kw.arg: literal_eval(kw.value) ...}
KwGet(keywords, key, default) ==
  IF \E i \in 1..Len(keywords) : keywords[i].arg = key
  THEN keywords[CHOOSE i \in 1..Len(keywords) : keywords[i].arg = key].value
  ELSE default

\* The sampled tools are made by the tool decorator from the functions
\* add(a: int, b: int), boom() and pass_result(result: str): the names
\* of the parameters of the function
parameters(name) ==
  CASE name = "add" -> <<"a", "b">>
    [] name = "pass_result" -> <<"result">>
    [] OTHER -> <<>>

\* The integers of the model, by their repr
IntReprs == <<"1", "2", "3", "4">>

\* a + b in Python on the values of the model: the sum of two ints, the
\* concatenation of two strs, TypeError otherwise
py_add(a, b) ==
  IF a.ty = "int" /\ b.ty = "int"
  THEN [raised |-> FALSE,
        value |-> Int(<<IntReprs[IndexOf(IntReprs, a.v[1])
                                 + IndexOf(IntReprs, b.v[1])]>>)]
  ELSE IF a.ty = "str" /\ b.ty = "str"
       THEN [raised |-> FALSE, value |-> Str(a.v \o b.v)]
  ELSE [raised |-> TRUE, value |-> Exc(<<"unsupported operand type(s) for +">>)]

\* The body of the function of a sampled tool on its bound parameters
func_body(name, keywords) ==
  CASE name = "add" ->
         py_add(KwGet(keywords, "a", NoneValue), KwGet(keywords, "b", NoneValue))
    [] name = "boom" -> [raised |-> TRUE, value |-> Exc(<<"boom">>)]
    [] OTHER -> [raised |-> FALSE, value |-> Str(<<"shadow">>)]

\* The parameters of the function that the keywords do not give
MissingParameters(name, keywords) ==
  SelectSeq(parameters(name),
            LAMBDA pname : ~\E i \in 1..Len(keywords) : keywords[i].arg = pname)

\* func(**kwargs): TypeError for a keyword that is no parameter, TypeError
\* for a parameter without a value, the body otherwise
func_call(name, keywords) ==
  IF \E i \in 1..Len(keywords) : ~InList(parameters(name), keywords[i].arg)
  THEN [raised |-> TRUE,
        value |-> Exc(<<name, "() got an unexpected keyword argument '",
                        keywords[CHOOSE i \in 1..Len(keywords) :
                                   /\ ~InList(parameters(name), keywords[i].arg)
                                   /\ \A j \in 1..(i - 1) :
                                        InList(parameters(name), keywords[j].arg)].arg,
                        "'">>)]
  ELSE IF MissingParameters(name, keywords) # <<>>
       THEN [raised |-> TRUE,
             value |-> Exc(<<name, "() missing required positional arguments: ">>
                             \o MissingParameters(name, keywords))]
  ELSE func_body(name, keywords)

\* The call of _run was bound, and did what r says
Entered(r) == [entered |-> TRUE, raised |-> r.raised, value |-> r.value]

\* Variant: an entry point that binds the positional values to the
\* parameters in order
tool_run_positional(name, args, keywords) ==
  Entered(func_call(name,
                    [i \in 1..Len(args) |-> KW(parameters(name)[i], args[i].value)]
                      \o keywords))

\* inst._run(*args, **kwargs) of a tool made by the decorator:
\* DynamicTool._run(self, **kwargs) takes no positional argument, and
\* calls func(**kwargs).  entered: the call of _run was bound
tool_run(name, args, keywords) ==
  IF args # <<>>
  THEN [entered |-> FALSE, raised |-> TRUE,
        value |-> Exc(<<"_run() takes 1 positional argument but more were given">>)]
  ELSE Entered(func_call(name, keywords))

\* ------------------------------------------------------------------------
\* Agent.execute_tool_call
\* ------------------------------------------------------------------------

\* What a dispatch does next: return a value, raise, block in input(), or
\* run a member's loop (send_message).
\* invoked: the built-ins and tool entry points the dispatch has called so
\* far, each with the positional and keyword values handed to it.
Return(value) ==
  [kind |-> "return", value |-> value, member |-> "", matched |-> <<>>,
   msg |-> <<>>, invoked |-> <<>>]

Raise(e) ==
  [kind |-> "raise", value |-> e, member |-> "", matched |-> <<>>,
   msg |-> <<>>, invoked |-> <<>>]

InputCall ==
  [kind |-> "input", value |-> NoneValue, member |-> "", matched |-> <<>>,
   msg |-> <<>>, invoked |-> <<>>]

UnleashCall(member, matched, msg) ==
  [kind |-> "unleash", value |-> NoneValue, member |-> member,
   matched |-> matched, msg |-> msg, invoked |-> <<>>]

\* effect is what the call of callee with these values does
Invoking(effect, by, callee, args, keywords) ==
  [effect EXCEPT !.invoked =
     <<[by |-> by, callee |-> callee, args |-> args, keywords |-> keywords]>>]

\* The keywords a built-in reads with kwargs.get
ReadBy(keywords, names) ==
  SelectSeq(keywords, LAMBDA k : k.arg \in names)

\* Agent.send_message up to member.unleash(msg); None.lower() raises
send_message(members, ask_user_of, agent_name, message, additional_resource, sender) ==
  IF agent_name.ty # "str"
  THEN Raise(Exc(<<"'NoneType' object has no attribute 'lower'">>))
  ELSE LET matched == get_agent_by_name(members, agent_name.v)
           i == send_target(members, ask_user_of, matched)
       IN IF i = 0 THEN Return(NotFound(agent_name.v))
          ELSE UnleashCall(members[i], matched,
                           TaggedMessage(sender, message, additional_resource))

\* Variant: the sender read from the call, the agent's identity its default
sender_from_call(self, keywords) ==
  Render(KwGet(keywords, "sender", Str(identity(self))))

\* sender=self.identity in the call of self.send_message
sender_of(self, keywords) == identity(self)

\* Variant: a dispatch that looks among the registered tools before the
\* built-ins
try_body_tools_first(self, members, ask_user_of, tool_call_str) ==
  LET tree == ast_parse(sanitize_tool_call(tool_call_str))
      kw == tree.keywords
      r == tool_run(tree.func, tree.args, kw)
  IN IF tree.kind = "Call" /\ InList(rawtools(self), tree.func)
          /\ \A i \in 1..Len(kw) : kw[i].lit
     THEN IF r.entered
          THEN Invoking(IF r.raised THEN Raise(r.value) ELSE Return(r.value),
                        "tool", tree.func, tree.args, kw)
          ELSE Raise(r.value)
     ELSE Return(Str(<<"Error: tool '", tree.func, "' not found.">>))

\* Variant: a dispatch that evaluates no argument before it calls
try_body_unevaluated(self, members, ask_user_of, tool_call_str) ==
  LET tree == ast_parse(sanitize_tool_call(tool_call_str))
      kw == tree.keywords
  IN IF tree.kind = "Call" /\ tree.func = "pass_result"
     THEN Invoking(Return(PassPair(KwGet(kw, "result", Str(<<>>)))),
                   "built-in", "pass_result", <<>>, ReadBy(kw, {"result"}))
     ELSE Return(Str(<<"Error: not a valid function call.">>))

\* The try block of execute_tool_call
try_body(self, members, ask_user_of, tool_call_str) ==
  LET tree == ast_parse(sanitize_tool_call(tool_call_str))
      kw == tree.keywords
      r == tool_run(tree.func, tree.args, kw)
  IN IF tree.kind = "SyntaxError" THEN Raise(Exc(<<"invalid syntax">>))
     ELSE IF tree.kind # "Call"
          THEN Return(Str(<<"Error: not a valid function call.">>))
     ELSE IF \/ \E i \in 1..Len(tree.args) : ~tree.args[i].lit
             \/ \E i \in 1..Len(kw) : ~kw[i].lit
          THEN Raise(Exc(<<"malformed node or string">>))
     ELSE IF tree.func = "send_message"
          THEN Invoking(send_message(members, ask_user_of,
                                     KwGet(kw, "agent_name", NoneValue),
                                     KwGet(kw, "message", NoneValue),
                                     KwGet(kw, "additional_resource", NoneValue),
                                     sender_of(self, kw)),
                        "built-in", "send_message", <<>>,
                        ReadBy(kw, {"agent_name", "message", "additional_resource"}))
     ELSE IF tree.func = "ask_user"
          THEN Invoking(InputCall, "built-in", "ask_user", <<>>,
                        ReadBy(kw, {"question"}))
     ELSE IF tree.func = "pass_result"
          THEN Invoking(Return(PassPair(KwGet(kw, "result", Str(<<>>)))),
                        "built-in", "pass_result", <<>>, ReadBy(kw, {"result"}))
     ELSE IF InList(rawtools(self), tree.func)
          THEN IF r.entered
               THEN Invoking(IF r.raised THEN Raise(r.value) ELSE Return(r.value),
                             "tool", tree.func, tree.args, kw)
               ELSE Raise(r.value)
     ELSE Return(Str(<<"Error: tool '", tree.func, "' not found.">>))

\* Variant: no except clause
except_handler_none(effect) == effect

\* except Exception as e: return f"Error: {e}"
except_handler(effect) ==
  IF effect.kind = "raise"
  THEN [Return(ErrorText(effect.value)) EXCEPT !.invoked = effect.invoked]
  ELSE effect

execute_tool_call(self, members, ask_user_of, tool_call_str) ==
  except_handler(try_body(self, members, ask_user_of, tool_call_str))

\* Variant: a dispatch loop that does not recognise the pass_result pair
IsPassResult_never(result) == FALSE

\* isinstance(result, tuple) and result[0] == "__PASS_RESULT__"
IsPassResult(result) == result.ty \in {"pass_str", "pass_int", "pass_none"}

\* ------------------------------------------------------------------------
\* The sampled model responses (what llm.run may return) and user input
\* ------------------------------------------------------------------------

RAnswer == <<"<think>", "t", "</think>", "\n", "done", " ">>

RLoop == <<"<think>", "t", "</think>", "<tool>", "add(a=1, b=2)", "</tool>">>

RPass ==
  <<"<tool>", " ", "add(a=1, b=2)", "\n", "</tool>", "\n",
    "<tool>", "pass_result(result=\"done\")", "</tool>",
    "<tool>", "boom()", "</tool>">>

\* pass_result whose payload, written with escapes, is the text of RLoop
RPassRaw ==
  <<"<tool>",
    "pass_result(result=\"\\x3cthink>t\\x3c/think>\\x3ctool>add(a=1, b=2)\\x3c/tool>\")",
    "</tool>">>

RErrors ==
  <<"<tool>", "add(a=1 b=2)", "</tool>",
    "<tool>", "42", "</tool>",
    "<tool>", "add(a=x, b=2)", "</tool>",
    "<tool>", "nosuch(q=1)", "</tool>",
    "<tool>", "boom()", "</tool>",
    "<tool>", "send_message(message=\"hi\")", "</tool>",
    "<tool>", "add(a=1, b=2", "</tool>">>

RAsk == <<"<tool>", "ask_user(question=\"q\")", "</tool>">>

RSend(i) ==
  <<"<tool>", SendCalls[i].text, "</tool>",
    "<tool>", "add(a=1, b=2)", "</tool>">>

\* The responses the model of each agent may give
Menu(a) ==
  CASE a = "ann" ->
         {RAnswer, RLoop, RPass, RPassRaw, RErrors, RAsk}
           \cup {RSend(i) : i \in 1..Len(SendCalls)}
    [] a = "bob" -> {RAnswer, RLoop, RPass, RAsk, RSend(2)}
    [] a = "bob2" -> {RAnswer, RPass, RSend(3)}
    [] OTHER -> {RAnswer, RPass}

\* A response that asks for send_message
MayDelegate(r) ==
  LET calls == extract_all_tool_calls(r)
  IN \E i \in 1..Len(calls) :
       ast_parse(sanitize_tool_call(calls[i])).func = "send_message"

\* The markup tags of the sampled texts, what re.sub(r"<[^>]+>", "", text)
\* removes
TagTokens == {"<think>", "</think>", "<tool>", "</tool>", "<b>", "</b>"}

IsNoTag(tok) == tok \notin TagTokens

\* Variant: the reasoning removed, the markup tags kept
plan_text_tagged(response) == StripTokens(RemoveThink(response, 1))

\* Clan.unleash: the plan text of a planning response
plan_text(response) ==
  StripTokens(SelectSeq(RemoveThink(response, 1), IsNoTag))

\* The responses the manager's model may give to the planning prompt
PlanMenu ==
  { <<"<think>", "t", "</think>", "\n", "<b>", "plan", "</b>", " ">>,
    <<"<think>", "plan">> }

\* The lines input() may read
UserLines == {"yes"}

Goal == <<"goal">>

\* Nested agent loops (frames of Agent.unleash on the call stack) explored
MaxDepth == 2

\* The sampled models ask for send_message in their first MaxSendTurn turns
MaxSendTurn == 1

\* ------------------------------------------------------------------------
\* State
\* ------------------------------------------------------------------------

VARIABLES
  clan,            \* the Clan: manager and members ("" and <<>>: no clan)
  ask_user,        \* Agent.ask_user of every agent
  clan_connected,  \* Agent.clan_connected
  rawmembers,      \* Agent.rawmembers
  user_task,       \* Agent.user_task
  stack,           \* the call stack: one frame per running Agent.unleash
  input_readers,   \* the agents whose dispatch has called input()
  plan,            \* Agent.plan of every agent
  members_text,    \* Agent.members: the roster description given to the agent
  planning_calls,  \* the calls of the manager's model made by Clan.unleash to plan
  messages,        \* llm.messages of every agent's adapter, the list Agent.messages names
  store,           \* the history files: the list read back from each path
  unleashed,       \* the Agent.unleash invocations so far
  output_file,     \* Agent.output_file
  sink,            \* the output files: their text (None: no such file)
  invocation       \* one call of a helper of the agent made outside any loop:
                   \* the function, its argument, what it returned

vars == <<clan, ask_user, clan_connected, rawmembers, user_task, stack,
          input_readers, plan, members_text, planning_calls,
          messages, store, unleashed, output_file, sink, invocation>>

\* The conversation histories and their files
history == <<messages, store, unleashed>>

\* The output files and who writes which
output == <<output_file, sink>>

\* ------------------------------------------------------------------------
\* Conversation history, its file, and the output file
\* ------------------------------------------------------------------------

\* One {role, content} record of llm.messages.  The content is named by
\* where it comes from: the system prompt, the prompt or the response of
\* turn number turn of the loop started by the loop-th Agent.unleash, a
\* loop of agent; loop 0 is the planning call of Clan.unleash.
Entry(kind, agent, loop, turn) ==
  [role |-> IF kind = "response" THEN "model" ELSE "user",
   kind |-> kind, agent |-> agent, loop |-> loop, turn |-> turn]

\* Clan.__init__: member.history_folder = self.history_folder ("history");
\* Agent.__init__: history_folder = "."
history_folder(a) == IF clan_connected[a] THEN "history" ELSE "."

\* f"{folder}/{self.identity}.json"
history_path(folder, a) == <<folder, "/">> \o identity(a) \o <<".json">>

store_key(a) == history_path(history_folder(a), a)

StoreKeys == {history_path(folder, a) : folder \in {".", "history"}, a \in Agents}

\* os.makedirs(folder) creates the folder and no directory below it: open
\* finds the directory of the file when the identity has no "/"
directory_exists(a) == ~InList(identity(a), "/")

\* Lines 326-331: the list in the file, [] without a readable file
load_history(st, key) == st[key]

\* llm.__init__(messages=self.messages, system_prompt=system_prompt):
\* add_message(USER, system_prompt)
llm_init(msgs, a, loop) == Append(msgs, Entry("system_prompt", a, loop, 0))

\* llm.run before the call of the API: add_message(role, prompt)
llm_run_prompt(msgs, a, loop, turn) ==
  Append(msgs, Entry("prompt", a, loop, turn))

\* llm.run: the prompt, then add_message(MODEL, response_content)
llm_run(msgs, a, loop, turn) ==
  Append(llm_run_prompt(msgs, a, loop, turn), Entry("response", a, loop, turn))

\* llm.reset(): self.messages = []
llm_reset(msgs) == <<>>

\* The adapter as given to Agent(llm=...): constructed with a system prompt
\* (add_message(USER, system_prompt)) for ann, without one for the others
constructor_messages(a) ==
  IF a = "ann" THEN <<Entry("constructor_prompt", a, 0, 0)>> ELSE <<>>

\* Clan.unleash lines 60-72: self.manager.llm.reset(), then
\* self.manager.llm.run(plan_prompt)
planning_messages(msgs, a) == llm_run(llm_reset(msgs), a, 0, 1)

\* Agent.unleash lines 326-368 on the adapter's list llm_msgs: self.messages
\* is the list loaded, llm.reset() drops the adapter's list and
\* llm.__init__(messages=self.messages, system_prompt=...) takes the loaded
\* one and adds the system prompt
agent_start_messages(llm_msgs, loaded, a, loop) == llm_init(loaded, a, loop)

\* Variant: the planning exchange kept, the loaded history and the system
\* prompt added to the adapter's list
clan_unleash_messages_kept(msgs, loaded, a, loop) ==
  llm_init(planning_messages(msgs, a) \o loaded, a, loop)

\* Clan.unleash on the manager's adapter: the planning call, the reset of
\* line 83, then the start of self.manager.unleash(self.goal)
clan_unleash_messages(msgs, loaded, a, loop) ==
  agent_start_messages(llm_reset(planning_messages(msgs, a)), loaded, a, loop)

\* The history files are written without failure after turn MaxFailTurn
\* of a loop
MaxFailTurn == 1

\* What lines 380-385 may do: write the file, or raise before the file is
\* opened for writing
SaveOutcomes(f) ==
  IF ~directory_exists(f.agent) THEN {"failed"}
  ELSE IF f.turn < MaxFailTurn THEN {"saved", "failed"}
  ELSE {"saved"}

\* Variant: the file written before llm.run has added the exchange
save_history_early(st, key, msgs, outcome) ==
  IF outcome = "saved"
  THEN [st EXCEPT ![key] = SubSeq(msgs, 1, Len(msgs) - 2)]
  ELSE st

\* json.dump(self.llm.messages, f) into the file opened with "w"
save_history(st, key, msgs, outcome) ==
  IF outcome = "saved" THEN [st EXCEPT ![key] = msgs] ELSE st

\* Variant: no except clause around the write
after_save_raising(f, outcome) ==
  IF outcome = "saved" THEN f
  ELSE [f EXCEPT !.pc = "Terminated", !.exit = "raised",
                 !.ret = Exc(<<"cannot write history">>), !.waiting = FALSE]

\* except Exception: pass
after_save(f, outcome) == f

OutTxt == Str(<<"out.txt">>)

AnnTxt == Str(<<"ann.txt">>)

Files == {OutTxt.v, AnnTxt.v}

\* Agent.__init__(output_file=...)
constructor_output_file(a) == IF a = "ann" THEN AnnTxt ELSE NoneValue

\* if self.output_file: a name that is not None and not empty
sink_configured(file) == file.ty = "str" /\ file.v # <<>>

\* Variant: the file written whatever way the loop ends
write_sink_always(snk, file, f) ==
  IF f.pc = "Terminated" /\ f.exit # "raised" /\ sink_configured(file)
  THEN [snk EXCEPT ![file.v] = Str(Render(f.ret))]
  ELSE snk

\* Lines 401-403 and 416-418: open(self.output_file, "w"), f.write(answer)
\* or f.write(str(final)), on the two return paths that have them
write_sink(snk, file, f) ==
  IF /\ f.pc = "Terminated"
     /\ f.exit \in {"answer", "pass_result"}
     /\ sink_configured(file)
  THEN [snk EXCEPT ![file.v] = Str(Render(f.ret))]
  ELSE snk

\* open(self.output_file, "w").close() in Clan.__init__
truncate_sink(snk, file) ==
  IF file.ty = "str" THEN [snk EXCEPT ![file.v] = Str(<<>>)] ELSE snk

\* What Clan.unleash sets before the manager's loop starts
planning == <<plan, planning_calls>>

\* The clans assembled (Clan.__init__), and the agent used without a clan
Setups ==
  { [manager |-> "", members |-> <<>>, output_file |-> NoneValue],
    [manager |-> "ann", members |-> <<"ann", "bob">>, output_file |-> OutTxt],
    [manager |-> "ann", members |-> <<"bob", "ann">>, output_file |-> OutTxt],
    [manager |-> "ann", members |-> <<"mgr", "ann">>, output_file |-> OutTxt],
    [manager |-> "ann", members |-> <<"ann", "the">>, output_file |-> OutTxt],
    [manager |-> "ann", members |-> <<"bob">>, output_file |-> NoneValue],
    [manager |-> "bob2", members |-> <<"bob", "bob2">>, output_file |-> NoneValue] }

\* The clan assembled later from agents a clan was assembled from before
Rewirings ==
  { [manager |-> "bob", members |-> <<"bob", "ann">>, output_file |-> OutTxt] }

InRoster(members, a) == \E i \in 1..Len(members) : members[i] = a

\* Agent.description, given to the constructor
description(a) == <<"d">>

\* One line of formatted_members
member_line(member, manager) ==
  <<"- ">> \o identity(member)
    \o (IF member = manager THEN <<" (Manager)">> ELSE <<>>)
    \o <<": ">> \o description(member) \o <<"\n">>

\* formatted_members after k rounds of the loop over self.members
RECURSIVE formatted_members(_, _, _)
formatted_members(members, manager, k) ==
  IF k = 0 THEN <<>>
  ELSE formatted_members(members, manager, k - 1)
         \o member_line(members[k], manager)

\* member.members = formatted_members, assigned in the round of the member
\* (the last round of an agent listed twice)
wired_members_text(su, a) ==
  formatted_members(su.members, su.manager,
                    CHOOSE k \in 1..Len(su.members) :
                      /\ su.members[k] = a
                      /\ \A j \in (k + 1)..Len(su.members) : su.members[j] # a)

\* No helper has been called on its own
NoInvocation == [fn |-> "", done |-> 0]

\* Agent.__init__ for every agent, then Clan.__init__(manager, members)
Assembled(su) ==
    /\ clan = su
    /\ ask_user = [a \in Agents |-> a = su.manager]
    /\ clan_connected = [a \in Agents |-> InRoster(su.members, a)]
    /\ rawmembers =
         [a \in Agents |-> IF InRoster(su.members, a) THEN su.members ELSE <<>>]
    /\ user_task =
         [a \in Agents |-> IF InRoster(su.members, a) THEN Goal ELSE <<>>]
    /\ stack = <<>>
    /\ input_readers = {}
    /\ plan = [a \in Agents |-> NoneValue]
    /\ members_text =
         [a \in Agents |-> IF InRoster(su.members, a)
                           THEN wired_members_text(su, a) ELSE <<>>]
    /\ planning_calls = 0
    /\ messages = [a \in Agents |-> constructor_messages(a)]
    /\ store = [key \in StoreKeys |-> <<>>]
    /\ unleashed = 0
    /\ output_file =
         [a \in Agents |-> IF InRoster(su.members, a)
                           THEN su.output_file ELSE constructor_output_file(a)]
    /\ sink = truncate_sink([file \in Files |-> NoneValue], su.output_file)

Init == \E su \in Setups : Assembled(su) /\ invocation = NoInvocation

\* ------------------------------------------------------------------------
\* Agent.unleash: one frame per invocation
\* ------------------------------------------------------------------------

max_turns == 10

\* The locals of one Agent.unleash invocation.  loop: its number among
\* the invocations.  saved: what the write of the history file did in
\* this turn.  turn: the responses
\* self.llm.run has returned so far.  via: the agent_name of the
\* send_message that started it (None for the outermost); waiting, matched:
\* the send_message in progress in this frame; dispatched, results: the
\* calls of this turn handed to execute_tool_call and what they returned.
NewFrame(agent, task, via) ==
  [agent |-> agent, task |-> task, via |-> via, turn |-> 0,
   loop |-> unleashed + 1, saved |-> "",
   pc |-> "AwaitingModel", current_input |-> task, response |-> <<>>,
   tool_calls |-> <<>>, idx |-> 1, tool_outputs |-> <<>>,
   waiting |-> FALSE, matched |-> <<>>,
   dispatched |-> <<>>, results |-> <<>>,
   exit |-> "", ret |-> NoneValue]

Top == stack[Len(stack)]

SetTop(f) == [stack EXCEPT ![Len(stack)] = f]

\* return value / raise
Terminate(f, exit, ret) ==
  [f EXCEPT !.pc = "Terminated", !.exit = exit, !.ret = ret,
            !.waiting = FALSE]

\* Variant: range(max_turns + 1)
turns_left_one_more(f) == f.turn <= max_turns

\* for turn in range(max_turns)
turns_left(f) == f.turn < max_turns

\* Variant: the calls of a turn taken last first
current_call_last_first(f) == f.tool_calls[Len(f.tool_calls) + 1 - f.idx]

\* The call the for loop over tool_calls hands to execute_tool_call
current_call(f) == f.tool_calls[f.idx]

\* Lines 411-424: a pass_result pair ends the loop, any other result is
\* appended to tool_outputs.
handle_result(f, result) ==
  IF IsPassResult(result)
  THEN Terminate([f EXCEPT !.results = Append(@, result)],
                 "pass_result", PassPayload(result))
  ELSE [f EXCEPT !.tool_outputs =
                   Append(@, ToolOutput(current_call(f), result)),
                 !.results = Append(@, result),
                 !.idx = @ + 1,
                 !.waiting = FALSE]

\* What the loop does with the outcome of execute_tool_call: an exception
\* that escaped it leaves unleash.
after_dispatch(f, effect) ==
  IF effect.kind = "raise" THEN Terminate(f, "raised", effect.value)
  ELSE handle_result(f, effect.value)

TopEffect ==
  execute_tool_call(Top.agent, rawmembers[Top.agent], ask_user,
                    current_call(Top))

Dispatching ==
  /\ stack # <<>>
  /\ Top.pc = "ExecutingTools"
  /\ ~Top.waiting
  /\ Top.idx <= Len(Top.tool_calls)

\* Clan.__init__ on agents that are wired already: the flags and fields of
\* agents outside the new roster stay as they are.
Assemble ==
  /\ stack = <<>>
  /\ planning_calls = 0
  /\ \E su \in Rewirings :
       /\ clan # su
       /\ clan' = su
       /\ ask_user' = [ask_user EXCEPT ![su.manager] = TRUE]
       /\ clan_connected' =
            [a \in Agents |-> clan_connected[a] \/ InRoster(su.members, a)]
       /\ rawmembers' =
            [a \in Agents |-> IF InRoster(su.members, a)
                              THEN su.members ELSE rawmembers[a]]
       /\ user_task' =
            [a \in Agents |-> IF InRoster(su.members, a)
                              THEN Goal ELSE user_task[a]]
       /\ members_text' =
            [a \in Agents |-> IF InRoster(su.members, a)
                              THEN wired_members_text(su, a)
                              ELSE members_text[a]]
       /\ output_file' =
            [a \in Agents |-> IF InRoster(su.members, a)
                              THEN su.output_file ELSE output_file[a]]
       /\ sink' = truncate_sink(sink, su.output_file)
  /\ UNCHANGED <<invocation, planning, stack, input_readers, history>>

\* Clan.unleash: the manager's model is asked for a plan, the plan text is
\* given to every member, the goal is handed to the manager.  An agent
\* without a clan is unleashed by its user.
Unleash ==
  /\ stack = <<>>
  /\ planning_calls = 0
  /\ \E a \in {IF clan.manager = "" THEN "ann" ELSE clan.manager} :
       /\ stack' = <<NewFrame(a, Goal, NoneValue)>>
       /\ user_task' = [user_task EXCEPT ![a] = Goal]
       /\ messages' = [messages EXCEPT ![a] =
                         IF clan.manager = ""
                         THEN agent_start_messages(
                                @, load_history(store, store_key(a)), a,
                                unleashed + 1)
                         ELSE clan_unleash_messages(
                                @, load_history(store, store_key(a)), a,
                                unleashed + 1)]
       /\ unleashed' = unleashed + 1
  /\ IF clan.manager = ""
     THEN UNCHANGED planning
     ELSE /\ planning_calls' = planning_calls + 1
          /\ \E response \in PlanMenu :
               plan' = [a \in Agents |->
                          IF InRoster(clan.members, a)
                          THEN Str(plan_text(response))
                          ELSE plan[a]]
  /\ UNCHANGED <<invocation, members_text, clan, ask_user, clan_connected, rawmembers,
                 input_readers, store, output>>

\* Clan.unleash: self.manager.llm.run(plan_prompt) raises
PlanningRaises ==
  /\ stack = <<>>
  /\ planning_calls = 0
  /\ clan.manager # ""
  /\ planning_calls' = planning_calls + 1
  /\ messages' = [messages EXCEPT ![clan.manager] =
                    llm_run_prompt(llm_reset(@), clan.manager, 0, 1)]
  /\ UNCHANGED <<invocation, plan, members_text, clan, ask_user, clan_connected, rawmembers,
                 user_task, stack, input_readers, store, unleashed, output>>

\* response = self.llm.run(current_input); extract the tool calls; without
\* any, return the answer.  current_input is read by llm.run and not again
\* before line 427 assigns it: the frame drops it here.
ModelTurn ==
  /\ stack # <<>>
  /\ Top.pc = "AwaitingModel"
  /\ turns_left(Top)
  /\ \E r \in Menu(Top.agent), outcome \in SaveOutcomes(Top) :
       /\ MayDelegate(r) => Len(stack) < MaxDepth /\ Top.turn < MaxSendTurn
       /\ messages' = [messages EXCEPT ![Top.agent] =
                         llm_run(@, Top.agent, Top.loop, Top.turn + 1)]
       /\ store' = save_history(store, store_key(Top.agent),
                                messages'[Top.agent], outcome)
       /\ LET tool_calls == extract_all_tool_calls(r)
              f == after_save([Top EXCEPT !.turn = @ + 1, !.response = r,
                                          !.current_input = <<>>,
                                          !.tool_calls = tool_calls, !.idx = 1,
                                          !.tool_outputs = <<>>,
                                          !.dispatched = <<>>, !.results = <<>>,
                                          !.saved = outcome],
                              outcome)
          IN stack' = SetTop(IF f.pc = "Terminated" THEN f
                             ELSE IF tool_calls = <<>>
                             THEN Terminate(f, "answer", Str(FinalAnswer(r)))
                             ELSE [f EXCEPT !.pc = "ExecutingTools"])
       /\ sink' = write_sink(sink, output_file[Top.agent], stack'[Len(stack)])
  /\ UNCHANGED <<invocation, planning, members_text, clan, ask_user, clan_connected, rawmembers, user_task,
                 input_readers, unleashed, output_file>>

\* self.llm.run raises (the adapter's network call fails)
ModelRaises ==
  /\ stack # <<>>
  /\ Top.pc = "AwaitingModel"
  /\ turns_left(Top)
  /\ stack' = SetTop(Terminate(Top, "raised", Exc(<<"model adapter error">>)))
  /\ messages' = [messages EXCEPT ![Top.agent] =
                    llm_run_prompt(@, Top.agent, Top.loop, Top.turn + 1)]
  /\ UNCHANGED <<invocation, planning, members_text, clan, ask_user, clan_connected, rawmembers, user_task,
                 input_readers, store, unleashed, output>>

\* execute_tool_call(call) for a call that neither blocks nor delegates
Dispatch ==
  /\ Dispatching
  /\ \E e \in {TopEffect} :
       /\ e.kind \in {"return", "raise"}
       /\ stack' = SetTop(after_dispatch(
                     [Top EXCEPT !.dispatched = Append(@, current_call(Top))],
                     e))
  /\ sink' = write_sink(sink, output_file[Top.agent], stack'[Len(stack)])
  /\ UNCHANGED <<invocation, planning, members_text, clan, ask_user, clan_connected, rawmembers, user_task,
                 input_readers, history, output_file>>

\* execute_tool_call(call) for ask_user: input() reads a line or raises
\* EOFError
AskUser ==
  /\ Dispatching
  /\ \E e \in {TopEffect} : e.kind = "input"
  /\ \E line \in UserLines \cup {"EOF"} :
       stack' = SetTop(after_dispatch(
                  [Top EXCEPT !.dispatched = Append(@, current_call(Top))],
                  except_handler(
                    IF line = "EOF"
                    THEN Raise(Exc(<<"EOF when reading a line">>))
                    ELSE Return(Str(<<"User answered: ", line>>)))))
  /\ input_readers' = input_readers \cup {Top.agent}
  /\ sink' = write_sink(sink, output_file[Top.agent], stack'[Len(stack)])
  /\ UNCHANGED <<invocation, planning, members_text, clan, ask_user, clan_connected, rawmembers, user_task,
                 history, output_file>>

\* The agent_name argument as written in a send_message call text
AddressedName(call) ==
  KwGet(ast_parse(sanitize_tool_call(call)).keywords, "agent_name", NoneValue)

\* Variant: send_message refuses to start a loop from inside a loop
Delegate_refused ==
  /\ Dispatching
  /\ \E e \in {TopEffect} :
       /\ e.kind = "unleash"
       /\ stack' = SetTop(after_dispatch(Top, Return(Str(<<"Error: nested delegation refused.">>))))
  /\ UNCHANGED <<invocation, planning, members_text, clan, ask_user, clan_connected, rawmembers, user_task, input_readers, history, output>>

\* execute_tool_call(call) for send_message to a member: member.unleash(msg)
Delegate ==
  /\ Dispatching
  /\ \E e \in {TopEffect} :
       /\ e.kind = "unleash"
       /\ stack' =
            Append(SetTop([Top EXCEPT
                             !.dispatched = Append(@, current_call(Top)),
                             !.waiting = TRUE, !.matched = e.matched]),
                   NewFrame(e.member, e.msg, AddressedName(current_call(Top))))
       /\ user_task' = [user_task EXCEPT ![e.member] = e.msg]
       /\ messages' = [messages EXCEPT ![e.member] =
                         llm_init(load_history(store, store_key(e.member)),
                                  e.member, unleashed + 1)]
       /\ unleashed' = unleashed + 1
  /\ UNCHANGED <<invocation, planning, members_text, clan, ask_user, clan_connected, rawmembers, input_readers,
                 store, output>>

\* Variant: send_message returns without waiting for the end of the
\* member's loop
DeliveryReturns_early ==
  /\ Len(stack) > 1
  /\ stack' = [SubSeq(stack, 1, Len(stack) - 1)
                 EXCEPT ![Len(stack) - 1] =
                   after_dispatch(stack[Len(stack) - 1],
                                  Return(Delivered(stack[Len(stack) - 1].matched)))]
  /\ UNCHANGED <<invocation, planning, members_text, clan, ask_user, clan_connected,
                 rawmembers, user_task, input_readers, history, output>>

\* Variant: send_message returns what the member's loop returned by
\* pass_result as a pass_result of the sender
DeliveryReturns_propagating ==
  /\ Len(stack) > 1
  /\ Top.pc = "Terminated"
  /\ LET parent == stack[Len(stack) - 1]
         effect == except_handler(
                     IF Top.exit = "raised" THEN Raise(Top.ret)
                     ELSE IF Top.exit = "pass_result"
                     THEN Return(PassPair(Top.ret))
                     ELSE Return(Delivered(parent.matched)))
     IN stack' = [SubSeq(stack, 1, Len(stack) - 1)
                    EXCEPT ![Len(stack) - 1] = after_dispatch(parent, effect)]
  /\ sink' = write_sink(sink, output_file[stack[Len(stack) - 1].agent],
                        stack'[Len(stack) - 1])
  /\ UNCHANGED <<invocation, planning, members_text, clan, ask_user, clan_connected, rawmembers, user_task,
                 input_readers, history, output_file>>

\* member.unleash(msg) returns or raises inside send_message, inside the
\* try block of the sender's execute_tool_call
DeliveryReturns ==
  /\ Len(stack) > 1
  /\ Top.pc = "Terminated"
  /\ LET parent == stack[Len(stack) - 1]
         effect == except_handler(
                     IF Top.exit = "raised" THEN Raise(Top.ret)
                     ELSE Return(Delivered(parent.matched)))
     IN stack' = [SubSeq(stack, 1, Len(stack) - 1)
                    EXCEPT ![Len(stack) - 1] = after_dispatch(parent, effect)]
  /\ sink' = write_sink(sink, output_file[stack[Len(stack) - 1].agent],
                        stack'[Len(stack) - 1])
  /\ UNCHANGED <<invocation, planning, members_text, clan, ask_user, clan_connected, rawmembers, user_task,
                 input_readers, history, output_file>>

\* current_input = "\n\n".join(tool_outputs)
FeedBack ==
  /\ stack # <<>>
  /\ Top.pc = "ExecutingTools"
  /\ ~Top.waiting
  /\ Top.idx > Len(Top.tool_calls)
  /\ stack' = SetTop([Top EXCEPT !.current_input = JoinOutputs(Top.tool_outputs),
                                 !.pc = "AwaitingModel"])
  /\ UNCHANGED <<invocation, planning, members_text, clan, ask_user, clan_connected, rawmembers, user_task,
                 input_readers, history, output>>

\* The for loop is exhausted: return response
MaxTurnsReached ==
  /\ stack # <<>>
  /\ Top.pc = "AwaitingModel"
  /\ ~turns_left(Top)
  /\ stack' = SetTop(Terminate(Top, "max_turns", Str(Top.response)))
  /\ sink' = write_sink(sink, output_file[Top.agent], stack'[Len(stack)])
  /\ UNCHANGED <<invocation, planning, members_text, clan, ask_user, clan_connected, rawmembers, user_task,
                 input_readers, history, output_file>>

Next ==
  \/ Assemble
  \/ Unleash
  \/ PlanningRaises
  \/ ModelTurn
  \/ ModelRaises
  \/ Dispatch
  \/ AskUser
  \/ Delegate
  \/ DeliveryReturns
  \/ FeedBack
  \/ MaxTurnsReached

Spec == Init /\ [][Next]_vars

\* ------------------------------------------------------------------------
\* Properties
\* ------------------------------------------------------------------------

Frames == {stack[d] : d \in 1..Len(stack)}

ParsedCall(call) == ast_parse(sanitize_tool_call(call))

AllLiteral(tree) ==
  /\ \A i \in 1..Len(tree.args) : tree.args[i].lit
  /\ \A i \in 1..Len(tree.keywords) : tree.keywords[i].lit

\* A call text that resolves to the built-in named func
ResolvesTo(call, func) ==
  /\ ParsedCall(call).kind = "Call"
  /\ ParsedCall(call).func = func
  /\ AllLiteral(ParsedCall(call))

\* A frame that has ended is not touched again: it stays as it is until
\* its caller takes the outcome.
EndedFramesStay ==
  \A d \in 1..Len(stack) :
    stack[d].pc = "Terminated" =>
      /\ d = Len(stack)
      /\ Len(stack') < d \/ stack'[d] = stack[d]

\* C1: when the call being dispatched resolves to pass_result, the loop
\* ends in that step with the call's result payload as its return value:
\* the later calls of the turn are not dispatched, the model is not invoked
\* again and the results collected so far in the turn are not fed back
\* (the frame's turn count, outputs and input stay as they are, and an
\* ended frame is never touched again).
C1_PassResultTerminates ==
  [][ /\ (Dispatching /\ ResolvesTo(current_call(Top), "pass_result")) =>
           /\ Len(stack') = Len(stack)
           /\ stack'[Len(stack)].pc = "Terminated"
           /\ stack'[Len(stack)].exit = "pass_result"
           /\ stack'[Len(stack)].ret =
                KwGet(ParsedCall(current_call(Top)).keywords, "result",
                      Str(<<>>))
           /\ stack'[Len(stack)].turn = Top.turn
           /\ stack'[Len(stack)].idx = Top.idx
           /\ stack'[Len(stack)].tool_outputs = Top.tool_outputs
           /\ stack'[Len(stack)].current_input = Top.current_input
      /\ EndedFramesStay ]_vars

\* C1 witness: a loop ended by pass_result with a call dispatched before it
\* and a call of the same turn left undispatched.
C1_Witness ==
  \E f \in Frames :
    /\ f.exit = "pass_result"
    /\ f.ret = Str(<<"done">>)
    /\ Len(f.tool_outputs) >= 1
    /\ f.idx < Len(f.tool_calls)

\* C2: one invocation of unleash invokes the model at most 10 times; a loop
\* whose 10 responses all asked for tools ends right after the 10th turn by
\* returning the 10th response as it came (reasoning block included).
C2_TurnBudget ==
  /\ [](\A f \in Frames :
          /\ f.turn <= 10
          /\ f.exit = "max_turns" => f.turn = 10 /\ f.ret = Str(f.response))
  /\ [][ (/\ stack # <<>>
          /\ Top.pc = "AwaitingModel"
          /\ Top.turn = 10) =>
           /\ Len(stack') = Len(stack)
           /\ stack'[Len(stack)] =
                [Top EXCEPT !.pc = "Terminated", !.exit = "max_turns",
                            !.ret = Str(Top.response)] ]_vars

\* C2 witness: a loop ended by the budget after 10 turns, returning a
\* response that still holds its reasoning block.
C2_Witness ==
  \E f \in Frames :
    /\ f.exit = "max_turns"
    /\ f.turn = 10
    /\ f.ret.v # <<>>
    /\ f.ret.v[1] = "<think>"

\* What a successful end of the loop of agent a can return: the answer of a
\* response without tool calls, or the payload of a pass_result call.
SuccessValues(a) ==
  {Str(FinalAnswer(r)) : r \in {q \in Menu(a) : extract_all_tool_calls(q) = <<>>}}
    \cup UNION { {KwGet(ParsedCall(extract_all_tool_calls(r)[i]).keywords,
                         "result", Str(<<>>)) :
                     i \in {k \in 1..Len(extract_all_tool_calls(r)) :
                              ResolvesTo(extract_all_tool_calls(r)[k],
                                         "pass_result")}} :
                  r \in Menu(a) }

\* C3: a return caused by the exhausted budget can be told from a
\* successful return: the value returned is none that the same agent can
\* return as a final answer or as a pass_result payload.
C3_BudgetReturnFlagged ==
  \A f \in Frames :
    f.exit = "max_turns" => f.ret \notin SuccessValues(f.agent)

HasToolRegion(response) ==
  \E i \in 1..Len(response) :
    /\ response[i] = "<tool>"
    /\ \E j \in (i + 1)..Len(response) : response[j] = "</tool>"

HasThinkBlock(text) ==
  \E i \in 1..Len(text) :
    /\ text[i] = "<think>"
    /\ \E j \in (i + 1)..Len(text) : text[j] = "</think>"

\* answer is response with the think blocks cut out and the blanks at both
\* ends dropped
RECURSIVE IsTrimmedRemainder(_, _)
IsTrimmedRemainder(answer, response) ==
  IF HasThinkBlock(response)
  THEN LET open == CHOOSE i \in 1..Len(response) :
                     /\ response[i] = "<think>"
                     /\ \A k \in 1..(i - 1) : response[k] # "<think>"
           close == CHOOSE j \in (open + 1)..Len(response) :
                      /\ response[j] = "</think>"
                      /\ \A k \in (open + 1)..(j - 1) : response[k] # "</think>"
       IN IsTrimmedRemainder(answer,
            SubSeq(response, 1, open - 1)
              \o SubSeq(response, close + 1, Len(response)))
  ELSE \E lo, hi \in 0..Len(response) :
         /\ lo + hi <= Len(response)
         /\ \A k \in 1..lo : IsBlank(response[k])
         /\ \A k \in (Len(response) - hi + 1)..Len(response) : IsBlank(response[k])
         /\ answer = SubSeq(response, lo + 1, Len(response) - hi)
         /\ answer # <<>> => ~IsBlank(answer[1]) /\ ~IsBlank(answer[Len(answer)])

\* C4: a response without a tool region ends the loop in its turn: nothing
\* is dispatched, the model is not invoked again (an ended frame is never
\* touched again), and the value returned is the response without its
\* think blocks, trimmed.  An answer is returned in no other case.
C4_NoToolsAnswer ==
  /\ [](\A f \in Frames :
          /\ (f.turn >= 1 /\ ~HasToolRegion(f.response)) =>
               /\ f.pc = "Terminated"
               /\ f.exit = "answer"
               /\ f.dispatched = <<>>
               /\ f.results = <<>>
               /\ f.ret.ty = "str"
               /\ IsTrimmedRemainder(f.ret.v, f.response)
          /\ f.exit = "answer" => ~HasToolRegion(f.response))
  /\ [][EndedFramesStay]_vars

\* C4 witness: a loop ended by a response without tool calls whose reasoning
\* block and outer blanks are not in the answer.
C4_Witness ==
  \E f \in Frames :
    /\ f.exit = "answer"
    /\ HasThinkBlock(f.response)
    /\ IsBlank(f.response[Len(f.response)])
    /\ f.ret = Str(<<"done">>)
    /\ f.turn >= 2

\* The entries, one per call and its result, the next model input is made
\* of: entry i names calls[i] and shows results[i]; a blank line between
\* two entries.
RECURSIVE Entries(_, _, _)
Entries(calls, results, i) ==
  IF i > Len(calls) THEN <<>>
  ELSE (IF i = 1 THEN <<>> ELSE <<"\n", "\n">>)
         \o <<"Tool ", "BACKQUOTE">> \o calls[i]
         \o <<"BACKQUOTE", " returned:", "\n">> \o Render(results[i])
         \o Entries(calls, results, i + 1)

\* C5: in a turn the calls are dispatched in the order they have in the
\* response (the calls dispatched so far are a prefix of the calls
\* extracted); a dispatch ends before the next begins, the delegated loop
\* it started included (all calls dispatched but the one in progress have
\* their result, and a call is in progress exactly in the frames that wait
\* for the loop above them); the input of the next model turn is made of
\* one entry per call dispatched, in that order.
C5_DispatchOrder ==
  \A d \in 1..Len(stack) :
    LET f == stack[d]
    IN /\ f.turn >= 1 => f.tool_calls = extract_all_tool_calls(f.response)
       /\ Len(f.dispatched) <= Len(f.tool_calls)
       /\ f.dispatched = SubSeq(f.tool_calls, 1, Len(f.dispatched))
       /\ Len(f.results) = Len(f.dispatched) - (IF f.waiting THEN 1 ELSE 0)
       /\ f.waiting <=> d < Len(stack)
       /\ (f.pc = "AwaitingModel" /\ f.turn >= 1) =>
            /\ f.dispatched = f.tool_calls
            /\ f.current_input = Entries(f.dispatched, f.results, 1)

\* C5 witness: the next model input is ready after a turn of two calls, the
\* first of which ran a delegated loop.
C5_Witness ==
  \E f \in Frames :
    /\ f.pc = "AwaitingModel"
    /\ f.turn >= 1
    /\ Len(f.dispatched) = 2
    /\ f.dispatched[1] # f.dispatched[2]
    /\ f.results[1].v[1] = "Message delivered to "
    /\ f.results[2] = Int(<<"3">>)

\* The calls bound to fail in the dispatch of agent self
FailingCall(self, call) ==
  \/ ParsedCall(call).kind = "SyntaxError"
  \/ /\ ParsedCall(call).kind = "Call"
     /\ \/ ~AllLiteral(ParsedCall(call))
        \/ ParsedCall(call).func \notin
             {"send_message", "ask_user", "pass_result", "add", "boom"}
        \/ ParsedCall(call).func = "boom"
        \/ /\ ParsedCall(call).func = "send_message"
           /\ AddressedName(call).ty # "str"

IsErrorText(result) ==
  /\ result.ty = "str"
  /\ result.v # <<>>
  /\ result.v[1] \in {"Error: ", "Error: tool '"}

\* C6: no exception leaves a dispatch.  Every result is a value; a call
\* bound to fail (parse failure, non-literal argument, unknown tool, agent
\* name missing, tool raising) and a delegated loop that raised give an
\* error text, an unresolved name gives the not-found text; the loop then
\* stands at the next call of the turn.  A loop is left by an exception
\* only between two turns, when the model raises.
C6_DispatchNeverRaises ==
  /\ [](\A f \in Frames :
          /\ \A i \in 1..Len(f.results) :
               /\ f.results[i].ty # "exc"
               /\ FailingCall(f.agent, f.dispatched[i]) =>
                    IsErrorText(f.results[i])
          /\ (f.pc = "ExecutingTools" /\ ~f.waiting) =>
               f.idx = Len(f.results) + 1
          /\ f.exit = "raised" =>
               /\ f.ret = Exc(<<"model adapter error">>)
               /\ f.dispatched = f.tool_calls
               /\ Len(f.results) = Len(f.dispatched))
  /\ [][ /\ (Len(stack) > 1 /\ Top.pc = "Terminated" /\ Top.exit = "raised") =>
              /\ Len(stack') = Len(stack) - 1
              /\ stack'[Len(stack')].pc = "ExecutingTools"
              /\ stack'[Len(stack')].results =
                   Append(stack[Len(stack) - 1].results,
                          Str(<<"Error: ">> \o Top.ret.v))
              /\ stack'[Len(stack')].idx = stack[Len(stack) - 1].idx + 1
         /\ (/\ Dispatching
             /\ ResolvesTo(current_call(Top), "send_message")
             /\ AddressedName(current_call(Top)).ty = "str"
             /\ Len(stack') = Len(stack)) =>
              stack'[Len(stack)].results =
                Append(Top.results,
                       Str(<<"Agent '">> \o AddressedName(current_call(Top)).v
                             \o <<"' not found in clan.">>)) ]_vars

\* C6 witness: the next model turn is reached after a turn of seven calls,
\* six of which failed and gave a text.
C6_Witness ==
  \E f \in Frames :
    /\ f.pc = "AwaitingModel"
    /\ f.response = RErrors
    /\ Len(f.results) = 7
    /\ \A i \in 1..6 : i # 2 => IsErrorText(f.results[i])
    /\ f.results[2] = Str(<<"Error: not a valid function call.">>)
    /\ f.results[7] = Int(<<"3">>)

\* A send_message call with a name is being dispatched
SendDispatch ==
  /\ Dispatching
  /\ ResolvesTo(current_call(Top), "send_message")
  /\ AddressedName(current_call(Top)).ty = "str"

\* The roster members a resolved name designates: the member of that
\* identity, the members that may ask the user for a manager name
Designated(members, matched) ==
  {i \in 1..Len(members) :
     \/ identity(members[i]) = matched
     \/ /\ matched \in { sCEOManager, <<"M","a","n","a","g","e","r">>,
                         <<"C","E","O">> }
        /\ ask_user[members[i]]}

IsConfirmation(result) ==
  /\ result.ty = "str"
  /\ result.v # <<>>
  /\ result.v[1] = "Message delivered to "

\* C7: send_message resolves the name, then either starts the loop of one
\* member the resolved name designates, on the message tagged with the
\* sender, and returns the confirmation when that loop has ended, once; or
\* starts no loop and returns the not-found text.  A confirmation is
\* returned only to a sender whose target's loop has just ended, and a loop
\* is started by nothing but such a send_message.
C7_SendMessage ==
  [][ /\ SendDispatch =>
           LET members == rawmembers[Top.agent]
               name == AddressedName(current_call(Top)).v
               matched == get_agent_by_name(members, name)
               message ==
                 KwGet(ParsedCall(current_call(Top)).keywords, "message",
                       NoneValue)
           IN IF Designated(members, matched) # {}
              THEN /\ Len(stack') = Len(stack) + 1
                   /\ stack'[Len(stack)].waiting
                   /\ stack'[Len(stack)].results = Top.results
                   /\ \E i \in Designated(members, matched) :
                        stack'[Len(stack')].agent = members[i]
                   /\ stack'[Len(stack')].pc = "AwaitingModel"
                   /\ stack'[Len(stack')].turn = 0
                   /\ stack'[Len(stack')].current_input =
                        <<"FROM: ">> \o identity(Top.agent) \o <<" | ">>
                          \o message.v
              ELSE /\ Len(stack') = Len(stack)
                   /\ stack'[Len(stack)].results =
                        Append(Top.results,
                               Str(<<"Agent '">> \o name
                                     \o <<"' not found in clan.">>))
      /\ \A d \in 1..Len(stack) :
           (/\ d <= Len(stack')
            /\ Len(stack'[d].results) = Len(stack[d].results) + 1
            /\ IsConfirmation(stack'[d].results[Len(stack'[d].results)])) =>
             /\ d = Len(stack) - 1
             /\ Len(stack') = d
             /\ stack[d].waiting
             /\ ~stack'[d].waiting
             /\ Top.pc = "Terminated"
             /\ Top.exit \in {"answer", "pass_result", "max_turns"}
             /\ Top.turn >= 1
      /\ (Len(stack) > 1 /\ Top.pc = "Terminated" /\ Top.exit # "raised") =>
           /\ Len(stack') = Len(stack) - 1
           /\ stack'[Len(stack')].results =
                Append(stack[Len(stack) - 1].results,
                       Str(<<"Message delivered to ">>
                             \o stack[Len(stack) - 1].matched \o <<".">>))
      /\ (stack # <<>> /\ Len(stack') > Len(stack)) => SendDispatch ]_vars

\* C7 witness: a sender holds the confirmation of a message, and its turn
\* went on with the next call.
C7_Witness ==
  \E f \in Frames :
    /\ Len(f.results) = 2
    /\ IsConfirmation(f.results[1])
    /\ ResolvesTo(f.dispatched[1], "send_message")

\* C8: a send_message whose name normalizes to a coordinator synonym runs
\* the loop of the clan's coordinator and of no other member.
C8_SynonymReachesCoordinator ==
  \A d \in 2..Len(stack) :
    (/\ stack[d].via.ty = "str"
     /\ InList(ceo_variations, CleanName(stack[d].via.v))) =>
      stack[d].agent = clan.manager

\* C9: for a name that is no coordinator synonym, a roster identity equal
\* to the name but for case takes the message; a name that matches no
\* identity, exactly or closely enough, is reported as not found.
C9_ResolverSteps ==
  [][ (/\ SendDispatch
       /\ ~InList(ceo_variations,
                  CleanName(AddressedName(current_call(Top)).v))) =>
        LET members == rawmembers[Top.agent]
            name == AddressedName(current_call(Top)).v
            names_lower == LowerAll(MemberNames(members))
            exact == {i \in 1..Len(members) :
                        Lower(identity(members[i])) = Lower(name)}
        IN /\ exact # {} =>
                /\ Len(stack') = Len(stack) + 1
                /\ \E i \in exact : stack'[Len(stack')].agent = members[i]
           /\ (/\ ~InList(names_lower, CleanName(name))
               /\ get_close_matches(CleanName(name), names_lower) = <<>>) =>
                /\ Len(stack') = Len(stack)
                /\ stack'[Len(stack)].results =
                     Append(Top.results, NotFound(name)) ]_vars

\* C10: user input is read only in the dispatch of an agent whose ask_user
\* flag is set.
C10_OnlyCoordinatorAsks ==
  \A a \in input_readers : ask_user[a]

C12_SameRosterDescription ==
  clan.manager # "" =>
    \A i \in 1..Len(clan.members) :
      members_text[clan.members[i]] =
        formatted_members(clan.members, clan.manager, Len(clan.members))

\* C13: in an assembled clan the manager is a roster member, and the
\* roster members with the ask_user flag set are the manager alone.
C13_OneCoordinatorInRoster ==
  clan.manager # "" =>
    /\ InRoster(clan.members, clan.manager)
    /\ \A i \in 1..Len(clan.members) :
         ask_user[clan.members[i]] <=> clan.members[i] = clan.manager

\* C14: one loop at a time makes progress.  Every frame below the top of
\* the call stack stands in a send_message; it takes no step (no model
\* call, no dispatch: the frame does not change) until the loop above it
\* has ended, and that is when its send_message returns.
C14_NoInterleaving ==
  /\ [](\A d \in 1..Len(stack) :
          /\ d < Len(stack) =>
               stack[d].pc = "ExecutingTools" /\ stack[d].waiting
          /\ d = Len(stack) => ~stack[d].waiting)
  /\ [][ \A d \in 1..(Len(stack) - 1) :
           /\ d <= Len(stack')
           /\ \/ stack'[d] = stack[d]
              \/ /\ d = Len(stack) - 1
                 /\ Len(stack') = d
                 /\ Top.pc = "Terminated"
                 /\ ~stack'[d].waiting
                 /\ stack'[d].turn = stack[d].turn
                 /\ stack'[d].dispatched = stack[d].dispatched
                 /\ Len(stack'[d].results) = Len(stack[d].results) + 1 ]_vars

\* C14 witness: a delegated loop is in its third turn while the loop that
\* sent the message still stands in the send_message of its first turn.
C14_Witness ==
  /\ Len(stack) = 2
  /\ stack[1].waiting
  /\ stack[1].turn = 1
  /\ stack[2].turn = 3
  /\ stack[2].pc = "ExecutingTools"

ModelStep ==
  /\ stack # <<>>
  /\ Len(stack') = Len(stack)
  /\ stack'[Len(stack)].turn = Top.turn + 1

IsPrefix(s, t) == Len(s) <= Len(t) /\ SubSeq(t, 1, Len(s)) = s

C16_PersistedEveryTurn ==
  [][ IF ModelStep
      THEN /\ messages'[Top.agent] =
                messages[Top.agent]
                  \o << Entry("prompt", Top.agent, Top.loop, Top.turn + 1),
                        Entry("response", Top.agent, Top.loop, Top.turn + 1) >>
           /\ stack'[Len(stack)].dispatched = <<>>
           /\ stack'[Len(stack)].saved = "saved" =>
                /\ store'[store_key(Top.agent)] = messages'[Top.agent]
                /\ \A key \in StoreKeys \ {store_key(Top.agent)} :
                     store'[key] = store[key]
      ELSE store' = store ]_vars

\* C16 witness: a loop ended by pass_result in its second turn, after a
\* tool call of that turn was dispatched; the history file holds the whole
\* history, the exchange of the second turn last.
C16_Witness ==
  /\ stack # <<>>
  /\ Top.exit = "pass_result"
  /\ Top.turn = 2
  /\ Top.saved = "saved"
  /\ Len(Top.dispatched) = 2
  /\ store[store_key(Top.agent)] = messages[Top.agent]
  /\ Len(messages[Top.agent]) = 5
  /\ messages[Top.agent][5] = Entry("response", Top.agent, Top.loop, 2)

\* The frame a model invocation leaves when the write succeeds
TurnFrame(f, r) ==
  IF extract_all_tool_calls(r) = <<>>
  THEN [f EXCEPT !.turn = @ + 1, !.response = r, !.current_input = <<>>,
                 !.tool_calls = <<>>, !.idx = 1, !.tool_outputs = <<>>,
                 !.dispatched = <<>>, !.results = <<>>, !.saved = "saved",
                 !.pc = "Terminated", !.exit = "answer",
                 !.ret = Str(FinalAnswer(r)), !.waiting = FALSE]
  ELSE [f EXCEPT !.turn = @ + 1, !.response = r, !.current_input = <<>>,
                 !.tool_calls = extract_all_tool_calls(r), !.idx = 1,
                 !.tool_outputs = <<>>, !.dispatched = <<>>, !.results = <<>>,
                 !.saved = "saved", !.pc = "ExecutingTools"]

\* C17: a model invocation whose write of the history file fails leaves
\* the loop where the same response leaves it when the write succeeds:
\* same turn count, same calls to dispatch or same answer returned, and the
\* file as it was; the failure is not raised.
C17_PersistFailureSwallowed ==
  [][ (ModelStep /\ stack'[Len(stack)].saved # "saved") =>
        /\ [stack'[Len(stack)] EXCEPT !.saved = "saved"] =
             TurnFrame(Top, stack'[Len(stack)].response)
        /\ \A d \in 1..(Len(stack) - 1) : stack'[d] = stack[d]
        /\ store' = store ]_vars

\* C17 witness: the write of the first turn failed, both calls of the turn
\* were dispatched and the second, pass_result, ended the loop with its
\* payload.
C17_Witness ==
  /\ stack # <<>>
  /\ Top.saved = "failed"
  /\ directory_exists(Top.agent)
  /\ Top.exit = "pass_result"
  /\ Top.ret = Str(<<"done">>)
  /\ Len(Top.dispatched) = 2
  /\ store[store_key(Top.agent)] = <<>>

\* C18: the history of every agent only grows, and only steps of the
\* agent's own loops change it.
C18_HistoryAppendOnly ==
  [][ \A a \in Agents :
        /\ IsPrefix(messages[a], messages'[a])
        /\ (messages'[a] # messages[a] /\ stack' # <<>>) =>
             stack'[Len(stack')].agent = a ]_vars

\* C19: a history file that has been written is written again only by
\* loops of the agent that wrote it before (the agent of the response that
\* ends the list written).
C19_OneWriterPerKey ==
  [][ \A key \in StoreKeys :
        (store[key] # <<>> /\ store'[key] # store[key]) =>
          store'[key][Len(store'[key])].agent = store[key][Len(store[key])].agent ]_vars

\* A loop ends in this step: the frame at depth d becomes terminated
Ends(d) ==
  /\ d <= Len(stack)
  /\ d <= Len(stack')
  /\ stack[d].pc # "Terminated"
  /\ stack'[d].pc = "Terminated"

\* A loop of an agent with an output file returns in this step, with an
\* answer or by pass_result
EndsWithSink(d) ==
  /\ Ends(d)
  /\ stack'[d].exit \in {"answer", "pass_result"}
  /\ sink_configured(output_file[stack[d].agent])

\* C20: when a loop ends with an answer or by pass_result and its agent
\* has an output file, the file holds the text of the value returned and
\* nothing else; a loop that ends otherwise (the turns exhausted, an
\* exception) writes no file, nor does any step that ends no loop.
C20_SinkHoldsFinalAnswer ==
  [][ stack # <<>> =>
        IF \E d \in 1..Len(stack) : EndsWithSink(d)
        THEN \A d \in 1..Len(stack) :
               EndsWithSink(d) =>
                 sink' = [sink EXCEPT ![output_file[stack[d].agent].v] =
                                        Str(Render(stack'[d].ret))]
        ELSE sink' = sink ]_vars

\* C20 witness: the loop of the manager has used its ten turns and leaves
\* the output file as the loop of a member left it, which ended by
\* pass_result and wrote its payload.
C20_Witness ==
  /\ Len(stack) = 1
  /\ Top.exit = "max_turns"
  /\ Top.ret # Str(<<"done">>)
  /\ sink_configured(output_file[Top.agent])
  /\ sink[output_file[Top.agent].v] = Str(<<"done">>)
  /\ output_file["bob"] = output_file[Top.agent]
  /\ Len(messages["bob"]) = 3

\* ------------------------------------------------------------------------
\* Call texts as characters: _escape_string_newlines and the cascade of
\* _sanitize_tool_call.  The character "BACKQUOTE" is the backquote.
\* ------------------------------------------------------------------------

\* ch in '\r\n'
IsNewline(ch) == ch \in {"\r", "\n"}

\* ch in '"\''
IsQuote(ch) == ch \in {"\"", "'"}

\* The while loop of _escape_string_newlines from position i (1-based) with
\* the locals in_str and qchar: what it appends to out from there on
RECURSIVE escape_scan(_, _, _, _)
escape_scan(s, i, in_str, qchar) ==
  IF i > Len(s) THEN <<>>
  ELSE LET ch == s[i]
           crlf == ch = "\r" /\ i + 1 <= Len(s) /\ s[i + 1] = "\n"
           next == IF crlf THEN i + 2 ELSE i + 1
       IN IF in_str
          THEN IF ch = "\\" /\ i + 1 <= Len(s)
               THEN <<ch, s[i + 1]>> \o escape_scan(s, i + 2, TRUE, qchar)
               ELSE IF ch = qchar
                    THEN <<ch>> \o escape_scan(s, i + 1, FALSE, qchar)
               ELSE IF IsNewline(ch)
                    THEN <<"\\", "n">> \o escape_scan(s, next, TRUE, qchar)
               ELSE <<ch>> \o escape_scan(s, i + 1, TRUE, qchar)
          ELSE IF IsQuote(ch)
               THEN <<ch>> \o escape_scan(s, i + 1, TRUE, ch)
               ELSE IF IsNewline(ch)
                    THEN <<" ">> \o escape_scan(s, next, FALSE, qchar)
               ELSE <<ch>> \o escape_scan(s, i + 1, FALSE, qchar)

\* Variant: a scan in which every quote character ends the string, the
\* escaped one too
RECURSIVE escape_scan_unescaped(_, _, _, _)
escape_scan_unescaped(s, i, in_str, qchar) ==
  IF i > Len(s) THEN <<>>
  ELSE LET ch == s[i]
           crlf == ch = "\r" /\ i + 1 <= Len(s) /\ s[i + 1] = "\n"
           next == IF crlf THEN i + 2 ELSE i + 1
       IN IF in_str
          THEN IF ch = qchar
               THEN <<ch>> \o escape_scan_unescaped(s, i + 1, FALSE, qchar)
               ELSE IF IsNewline(ch)
                    THEN <<"\\", "n">> \o escape_scan_unescaped(s, next, TRUE, qchar)
               ELSE <<ch>> \o escape_scan_unescaped(s, i + 1, TRUE, qchar)
          ELSE IF IsQuote(ch)
               THEN <<ch>> \o escape_scan_unescaped(s, i + 1, TRUE, ch)
               ELSE IF IsNewline(ch)
                    THEN <<" ">> \o escape_scan_unescaped(s, next, FALSE, qchar)
               ELSE <<ch>> \o escape_scan_unescaped(s, i + 1, FALSE, qchar)

escape_string_newlines_unescaped(s) == escape_scan_unescaped(s, 1, FALSE, "")

\* Agent._escape_string_newlines: in_str = False, qchar = None at the start
escape_string_newlines(s) == escape_scan(s, 1, FALSE, "")

\* ' '.join(s.split()) from position i of a stripped text: every run of
\* whitespace becomes one space
RECURSIVE CollapseFrom(_, _)
CollapseFrom(s, i) ==
  IF i > Len(s) THEN <<>>
  ELSE IF IsSpace(s[i])
       THEN IF i > 1 /\ IsSpace(s[i - 1]) THEN CollapseFrom(s, i + 1)
            ELSE <<" ">> \o CollapseFrom(s, i + 1)
  ELSE <<s[i]>> \o CollapseFrom(s, i + 1)

\* ' '.join(s.split())
Collapse(s) == CollapseFrom(Strip(s), 1)

\* str.count(ch)
Count(s, ch) == Cardinality({i \in 1..Len(s) : s[i] = ch})

\* ch * n
Repeat(ch, n) == [i \in 1..n |-> ch]

\* The first position >= from of character ch, 0 when there is none
CharAt(s, ch, from) ==
  IF \E i \in from..Len(s) : s[i] = ch
  THEN CHOOSE i \in from..Len(s) : s[i] = ch /\ \A j \in from..(i - 1) : s[j] # ch
  ELSE 0

\* re.sub of a backquoted run by what is between the backquotes, from
\* position from
RECURSIVE StripBackquotesFrom(_, _)
StripBackquotesFrom(s, from) ==
  LET open == CharAt(s, "BACKQUOTE", from)
      close == IF open = 0 THEN 0 ELSE CharAt(s, "BACKQUOTE", open + 1)
  IN IF open = 0 \/ close = 0 THEN SubSeq(s, from, Len(s))
     ELSE SubSeq(s, from, open - 1) \o SubSeq(s, open + 1, close - 1)
            \o StripBackquotesFrom(s, close + 1)

\* Line 223: re.sub on s
strip_backquotes(s) == StripBackquotesFrom(s, 1)

\* candidate + ')' * diff of stage 4
close_parens(candidate) ==
  candidate \o Repeat(")", Count(candidate, "(") - Count(candidate, ")"))

\* diff > 0
parens_open(candidate) == Count(candidate, "(") > Count(candidate, ")")

\* Raw texts sampled besides: calls with a missing parenthesis or quote,
\* newlines in and between arguments, backquote wrappers
CuratedRawTexts ==
  { <<"a","d","d","(","a","=","1",","," ","b","=","2">>,
    <<"a","d","d","(","a","=","1",","," ","b","=","2",")">>,
    <<"f","(","a","=","\"","x","\n","y","\"",")">>, <<"f","(","a","=","\"","x">>,
    <<"f","(","1",",","\n","2",")">>, <<"BACKQUOTE","f","(","1",")"," ","BACKQUOTE">>,
    <<"BACKQUOTE","f","(","1",")","BACKQUOTE">>, <<" ",")","("," ">>,
    <<"f","(","a","=","\"","x","\r","\n","y","\"",")">>,
    <<"f","(","a","=","'","x","\n","y","'",")">>, <<"f","(","\n","\"","a","\n","b","\"","\n",")">>,
    <<"f","(","a","=","\"","x","\\","\"","y","\n","z","\"",")">>,
    <<"f","(","a","=","1"," "," ",",","\n"," ","b","=","2">>, <<"f","(","(","1",")">>,
    <<"BACKQUOTE","f","(","\"","a","\n","b","\"",")","BACKQUOTE">> }

\* The texts on which ast.parse(text, mode='eval') returns, of those the
\* cascade tries on raw texts of at most MaxRawLen + 1 characters of
\* RepairChars and on CuratedRawTexts (CPython 3.11)
ParsableTexts ==
  { <<"(","\n","\n",")">>, <<"(","\n"," ",")">>, <<"(","\n",")">>, <<"(","\n","f",")">>,
    <<"("," ","\n",")">>, <<"("," "," ","(",")",")">>, <<"("," "," ",")">>, <<"("," "," ","f",")">>,
    <<"("," ","(","(",")",")",")">>, <<"("," ","(",")",")">>, <<"("," ","(","f",")",")">>,
    <<"("," ",")">>, <<"("," ",")","(",")">>, <<"("," ","f","(",")",")">>, <<"("," ","f",")">>,
    <<"("," ","f","f",")">>, <<"(","("," ","(",")",")",")">>, <<"(","("," ",")",")">>,
    <<"(","("," ","f",")",")">>, <<"(","(","(","(",")",")",")",")">>, <<"(","(","(",")",")",")">>,
    <<"(","(","(","f",")",")",")">>, <<"(","(",")","(",")",")">>, <<"(","(",")",")">>,
    <<"(","(","f","(",")",")",")">>, <<"(","(","f",")",")">>, <<"(","(","f","f",")",")">>,
    <<"(",")">>, <<"(",")"," ","(",")">>, <<"(",")","(","(",")",")">>, <<"(",")","(",")">>,
    <<"(",")","(","f",")">>, <<"(","f","\n",")">>, <<"(","f"," ","(",")",")">>, <<"(","f"," ",")">>,
    <<"(","f","(","(",")",")",")">>, <<"(","f","(",")",")">>, <<"(","f","(","f",")",")">>,
    <<"(","f",")">>, <<"(","f",")","(",")">>, <<"(","f","f","(",")",")">>, <<"(","f","f",")">>,
    <<"(","f","f","f",")">>, <<"a","d","d","(","a","=","1",","," ","b","=","2",")">>, <<"f">>,
    <<"f"," ">>, <<"f"," "," ","(",")">>, <<"f"," ","(","(",")",")">>, <<"f"," ","(",")">>,
    <<"f"," ","(","f",")">>, <<"f","(","\n",")">>,
    <<"f","("," ","\"","a","\\","n","b","\""," ",")">>, <<"f","("," ","(",")",")">>,
    <<"f","("," ",")">>, <<"f","("," ","f",")">>, <<"f","(","\"","a","\\","n","b","\"",")">>,
    <<"f","(","(","(",")",")",")">>, <<"f","(","(",")",")">>, <<"f","(","(","1",")",")">>,
    <<"f","(","(","f",")",")">>, <<"f","(",")">>, <<"f","(",")","(",")">>, <<"f","(","1",")">>,
    <<"f","(","1",")"," ">>, <<"f","(","1",",","\n","2",")">>, <<"f","(","a","=","\"","x","\"",")">>,
    <<"f","(","a","=","\"","x","\\","\"","y","\\","n","z","\"",")">>,
    <<"f","(","a","=","\"","x","\\","n","y","\"",")">>,
    <<"f","(","a","=","'","x","\\","n","y","'",")">>,
    <<"f","(","a","=","1"," "," ",","," "," ","b","=","2",")">>, <<"f","(","f","(",")",")">>,
    <<"f","(","f",")">>, <<"f","(","f","f",")">>, <<"f","f">>, <<"f","f"," ","(",")">>,
    <<"f","f","(","(",")",")">>, <<"f","f","(",")">>, <<"f","f","(","f",")">>, <<"f","f","f">>,
    <<"f","f","f","(",")">>, <<"f","f","f","f">> }

\* ast.parse(text, mode='eval') returns: the texts the cascade tries on the
\* sampled raw texts are looked up in ParsableTexts
parses(text) == text \in ParsableTexts

\* Variant: a cascade that gives the raw text back when nothing parses
sanitize_text_giveup_raw(raw) ==
  LET s == Strip(raw)
      fixed == escape_string_newlines(s)
      collapsed == Collapse(s)
      stripped == strip_backquotes(s)
  IN IF parses(s) THEN s
     ELSE IF parses(fixed) THEN fixed
     ELSE IF parses(collapsed) THEN collapsed
     ELSE IF parens_open(fixed) /\ parses(close_parens(fixed))
          THEN close_parens(fixed)
     ELSE IF parens_open(collapsed) /\ parses(close_parens(collapsed))
          THEN close_parens(collapsed)
     ELSE IF parses(fixed \o <<"\"", ")">>) THEN fixed \o <<"\"", ")">>
     ELSE IF parses(collapsed \o <<"\"", ")">>) THEN collapsed \o <<"\"", ")">>
     ELSE IF parses(fixed \o <<"'", ")">>) THEN fixed \o <<"'", ")">>
     ELSE IF parses(collapsed \o <<"'", ")">>) THEN collapsed \o <<"'", ")">>
     ELSE IF stripped # s /\ parses(escape_string_newlines(stripped))
          THEN escape_string_newlines(stripped)
     ELSE raw

\* Agent._sanitize_tool_call on a text given as characters: s = raw.strip(),
\* then the six stages in the order of the code, then return s
sanitize_text(raw) ==
  LET s == Strip(raw)
      fixed == escape_string_newlines(s)
      collapsed == Collapse(s)
      stripped == strip_backquotes(s)
  IN IF parses(s) THEN s
     ELSE IF parses(fixed) THEN fixed
     ELSE IF parses(collapsed) THEN collapsed
     ELSE IF parens_open(fixed) /\ parses(close_parens(fixed))
          THEN close_parens(fixed)
     ELSE IF parens_open(collapsed) /\ parses(close_parens(collapsed))
          THEN close_parens(collapsed)
     ELSE IF parses(fixed \o <<"\"", ")">>) THEN fixed \o <<"\"", ")">>
     ELSE IF parses(collapsed \o <<"\"", ")">>) THEN collapsed \o <<"\"", ")">>
     ELSE IF parses(fixed \o <<"'", ")">>) THEN fixed \o <<"'", ")">>
     ELSE IF parses(collapsed \o <<"'", ")">>) THEN collapsed \o <<"'", ")">>
     ELSE IF stripped # s /\ parses(escape_string_newlines(stripped))
          THEN escape_string_newlines(stripped)
     ELSE s

\* Every text over the characters alphabet of at most n characters
Texts(alphabet, n) == UNION {[1..k -> alphabet] : k \in 0..n}

\* ------------------------------------------------------------------------
\* The helpers called on their own: one call per run, on a sampled input
\* ------------------------------------------------------------------------

\* The characters of the raw texts sampled in full
RepairChars == {"f", "(", ")", "BACKQUOTE", " ", "\n"}

\* The longest raw text sampled in full
MaxRawLen == 3

\* The texts given to _sanitize_tool_call
RawTexts == Texts(RepairChars, MaxRawLen) \cup CuratedRawTexts

SanitizeCalls ==
  {[fn |-> "_sanitize_tool_call", arg |-> raw, outs |-> <<>>] : raw \in RawTexts}

\* The characters of the texts given to _escape_string_newlines
ScanChars == {"a", "\"", "'", "\\", "\n", "\r"}

\* The longest text given to _escape_string_newlines
MaxScanLen == 5

ScanCalls ==
  {[fn |-> "_escape_string_newlines", arg |-> s, outs |-> <<>>] :
     s \in Texts(ScanChars, MaxScanLen)}

\* The tokens of the texts given to extract_all_tool_calls
ExtractTokens == {"<tool>", "</tool>", "x", " ", "\n"}

\* The longest text given to extract_all_tool_calls
MaxContentLen == 6

\* The longest reasoning and the longest remainder of a sampled response
\* that begins with its reasoning block
MaxReasoningLen == 3

\* Responses with a reasoning block at their start
ReasonedContents ==
  {<<"<think>">> \o t \o <<"</think>">> \o u :
     t \in Texts({"<tool>", "</tool>", "x"}, MaxReasoningLen),
     u \in Texts({"<tool>", "</tool>", "x"}, MaxReasoningLen)}

ExtractCalls ==
  {[fn |-> "extract_all_tool_calls", arg |-> content, outs |-> <<>>] :
     content \in Texts(ExtractTokens, MaxContentLen) \cup ReasonedContents}

\* A Field of a tool: name, field_type, required, default_value
Field(name, field_type, required, default_value) ==
  [name |-> name, field_type |-> field_type, required |-> required,
   default_value |-> default_value]

\* self.params of the tools: add and pass_result as the decorator makes
\* them from the annotations of the function, and the class tool inc with
\* _run(self, by, n) returning by + n, by optional with default 1
params(name) ==
  CASE name = "add" -> <<Field("a", "integer", TRUE, NoneValue),
                         Field("b", "integer", TRUE, NoneValue)>>
    [] name = "pass_result" -> <<Field("result", "string", TRUE, NoneValue)>>
    [] name = "inc" -> <<Field("by", "integer", FALSE, Int(<<"1">>)),
                         Field("n", "integer", TRUE, NoneValue)>>
    [] OTHER -> <<>>

\* type(value).__name__
type_name(value) ==
  CASE value.ty = "int" -> "int" [] value.ty = "str" -> "str" [] OTHER -> "NoneType"

\* Field.validate_value: None passes when the field is not required; an
\* integer field takes an int, a string field a str
validate_value(param, value) ==
  IF value.ty = "none" THEN ~param.required
  ELSE IF param.field_type = "integer" THEN value.ty = "int"
  ELSE IF param.field_type = "string" THEN value.ty = "str"
  ELSE TRUE

HasKey(kwargs, key) == \E i \in 1..Len(kwargs) : kwargs[i].arg = key

\* ToolResult(success, result, error_message); entered: _run was called
ToolResult(success, result, error_message, entered) ==
  [success |-> success, result |-> result, error_message |-> error_message,
   entered |-> entered]

MissingRequired(param) ==
  ToolResult(FALSE, NoneValue,
             Str(<<"Missing required parameter: ", param.name>>), FALSE)

InvalidType(param, value) ==
  ToolResult(FALSE, NoneValue,
             Str(<<"Invalid type for parameter ", param.name, ": expected ",
                   param.field_type, ", got ", type_name(value)>>), FALSE)

Validated ==
  ToolResult(TRUE, Str(<<"Parameters validated successfully">>), NoneValue, FALSE)

\* Variant: every required parameter looked for before any type is checked
RECURSIVE validate_required_first(_, _, _)
validate_required_first(ps, kwargs, k) ==
  IF \E i \in 1..Len(ps) : ps[i].required /\ ~HasKey(kwargs, ps[i].name)
  THEN MissingRequired(ps[CHOOSE i \in 1..Len(ps) :
                            /\ ps[i].required /\ ~HasKey(kwargs, ps[i].name)
                            /\ \A j \in 1..(i - 1) :
                                 ~(ps[j].required /\ ~HasKey(kwargs, ps[j].name))])
  ELSE IF k > Len(ps) THEN Validated
  ELSE IF HasKey(kwargs, ps[k].name)
          /\ ~validate_value(ps[k], KwGet(kwargs, ps[k].name, NoneValue))
       THEN InvalidType(ps[k], KwGet(kwargs, ps[k].name, NoneValue))
  ELSE validate_required_first(ps, kwargs, k + 1)

\* BaseTool.validate_parameters: the loop over self.params from the k-th
\* on; per parameter first the required check, then the type check
RECURSIVE validate_parameters(_, _, _)
validate_parameters(ps, kwargs, k) ==
  IF k > Len(ps) THEN Validated
  ELSE IF ps[k].required /\ ~HasKey(kwargs, ps[k].name)
       THEN MissingRequired(ps[k])
  ELSE IF HasKey(kwargs, ps[k].name)
          /\ ~validate_value(ps[k], KwGet(kwargs, ps[k].name, NoneValue))
       THEN InvalidType(ps[k], KwGet(kwargs, ps[k].name, NoneValue))
  ELSE validate_parameters(ps, kwargs, k + 1)

\* Lines 164-166: kwargs with the default values of the parameters that
\* are not given and have a default
with_defaults(ps, kwargs) ==
  kwargs \o [i \in 1..Len(SelectSeq(ps, LAMBDA q :
                  ~HasKey(kwargs, q.name) /\ q.default_value.ty # "none"))
             |-> KW(SelectSeq(ps, LAMBDA q :
                      ~HasKey(kwargs, q.name) /\ q.default_value.ty # "none")[i].name,
                    SelectSeq(ps, LAMBDA q :
                      ~HasKey(kwargs, q.name) /\ q.default_value.ty # "none")[i]
                      .default_value)]

\* The names of the parameters of _run of inc, like those of the functions
run_parameters(name) ==
  IF name = "inc" THEN <<"by", "n">> ELSE parameters(name)

\* self._run(**kwargs) in BaseTool.run: the binding, then the body; inc
\* returns by + n
run_call(name, kwargs) ==
  IF \E i \in 1..Len(kwargs) : ~InList(run_parameters(name), kwargs[i].arg)
  THEN [entered |-> name # "inc", raised |-> TRUE,
        value |-> Exc(<<name, "() got an unexpected keyword argument">>)]
  ELSE IF \E i \in 1..Len(run_parameters(name)) :
            ~HasKey(kwargs, run_parameters(name)[i])
       THEN [entered |-> name # "inc", raised |-> TRUE,
             value |-> Exc(<<name, "() missing required positional arguments">>)]
  ELSE IF name = "inc"
       THEN Entered(py_add(KwGet(kwargs, "by", NoneValue),
                           KwGet(kwargs, "n", NoneValue)))
  ELSE Entered(func_body(name, kwargs))

\* BaseTool.run(**kwargs)
base_tool_run(name, kwargs) ==
  IF ~validate_parameters(params(name), kwargs, 1).success
  THEN validate_parameters(params(name), kwargs, 1)
  ELSE IF run_call(name, with_defaults(params(name), kwargs)).raised
       THEN ToolResult(FALSE, NoneValue,
                       Str(<<"Tool execution error: ">>
                             \o run_call(name, with_defaults(params(name), kwargs)).value.v),
                       run_call(name, with_defaults(params(name), kwargs)).entered)
  ELSE ToolResult(TRUE, run_call(name, with_defaults(params(name), kwargs)).value,
                  NoneValue, TRUE)

\* The values given to a parameter in the sampled calls of BaseTool.run
\* ("absent": the keyword is not given)
GivenValues == {"absent", "int", "str", "none"}

GivenKW(name, given) ==
  CASE given = "absent" -> <<>>
    [] given = "int" -> <<KW(name, Int(<<"2">>))>>
    [] given = "str" -> <<KW(name, Str(<<"x">>))>>
    [] given = "none" -> <<KW(name, NoneValue)>>

RunCalls ==
  {[fn |-> "BaseTool.run",
    arg |-> [tool |-> t,
             kwargs |-> GivenKW(params(t)[1].name, g1)
                          \o GivenKW(params(t)[2].name, g2)],
    outs |-> <<>>] : t \in {"add", "inc"}, g1 \in GivenValues, g2 \in GivenValues}

\* The call texts given to execute_tool_call alone, and by whom
DispatchTexts ==
  { "add(a=1, b=2)", "add(1, 2)", "add(a=1)", "add(a=\"x\", b=\"y\")",
    "add(a=\"x\", b=2)", "add(a=1, b=2, c=1)", "add(a=1, b=2",
    "add(a=x, b=2)", "add(x, 2)", "add(a=f(1), b=2)", "add(a=os.sep, b=2)",
    "add(a=x+1, b=2)", "Add(a=1, b=2)", "x.add(a=1, b=2)", "nosuch(q=1)",
    "boom()", "42", "add(a=1 b=2)",
    "pass_result(result=\"done\")", "pass_result(\"done\")", "pass_result()",
    "pass_result(result=x)",
    "send_message(agent_name=\"bob\", message=\"hi\")",
    "send_message(agent_name=\"Zzyx\", message=\"hi\")",
    "send_message(\"bob\", \"hi\")", "send_message(message=\"hi\")",
    "send_message(agent_name=bob, message=\"hi\")",
    "send_message(agent_name=\"bob\", message=\"hi\", sender=\"Bob\")",
    "send_message(agent_name=\"ann\", message=\"FROM: Bob | hi\", additional_resource=\"FROM: Bob\", sender=\"Bob\")",
    "ask_user(question=\"q\")", "ask_user(question=q)" }

DispatchCalls ==
  {[fn |-> "execute_tool_call", arg |-> [self |-> a, call |-> <<t>>],
    outs |-> <<>>] : a \in {"ann", "bob", "the"}, t \in DispatchTexts}

\* valid_types = [e.value for e in ToolParameterType]
ValidTypes ==
  {"string", "integer", "float", "boolean", "list", "dict", "any"}

\* The outcome of constructing a tool: the tool with its params, or the
\* ValueError raised
Constructed(fields) == [constructed |-> TRUE, params |-> fields, error |-> ""]

ConstructionError(msg) == [constructed |-> FALSE, params |-> <<>>, error |-> msg]

\* Field.__post_init__ on the arguments of Field(...): "" when it returns,
\* else the message of the ValueError
post_init(args) ==
  IF args.name = "" THEN "Field name must be a non-empty string"
  ELSE IF args.description = ""
       THEN "Field description must be a non-empty string"
  ELSE IF args.field_type \notin ValidTypes THEN "Invalid field_type"
  ELSE ""

\* The Field objects of a list of Field(...) expressions that all return
FieldsOf(field_args) ==
  [i \in 1..Len(field_args) |->
     Field(field_args[i].name, field_args[i].field_type,
           field_args[i].required, field_args[i].default_value)]

\* BaseTool._validate_tool_config on a list of Field objects
validate_tool_config(name, tool_description, fields) ==
  IF name = "" THEN ConstructionError("Tool must have a name")
  ELSE IF tool_description = "" THEN ConstructionError("Tool must have a description")
  ELSE Constructed(fields)

\* The constructor of a BaseTool subclass that sets name, description and
\* params = [Field(...), ...] and calls super().__init__(): the Field
\* expressions in order, then _validate_tool_config
construct_tool(name, tool_description, field_args) ==
  IF \E i \in 1..Len(field_args) : post_init(field_args[i]) # ""
  THEN ConstructionError(
         post_init(field_args[CHOOSE i \in 1..Len(field_args) :
                                /\ post_init(field_args[i]) # ""
                                /\ \A j \in 1..(i - 1) :
                                     post_init(field_args[j]) = ""]))
  ELSE validate_tool_config(name, tool_description, FieldsOf(field_args))

\* type_mapping.get(annotation, ToolParameterType.STRING) of the decorator
annotation_type(annotation) ==
  CASE annotation = "int" -> "integer"
    [] annotation = "str" -> "string"
    [] OTHER -> "string"

\* The default of a parameter of the decorated function as a value
default_of(default) ==
  CASE default = "int" -> Int(<<"1">>) [] OTHER -> NoneValue

\* The Field(...) arguments the decorator makes of one parameter
decorated_field(param) ==
  [name |-> param.name, description |-> "Parameter",
   field_type |-> annotation_type(param.annotation),
   required |-> param.default = "empty",
   default_value |-> IF param.default = "empty" THEN NoneValue
                     ELSE default_of(param.default)]

IsNotSelf(param) == param.name # "self"

\* tool(name, description)(func)(): the fields of the signature without
\* self, then DynamicTool.__init__
decorate_tool(name, tool_description, signature) ==
  construct_tool(name, tool_description,
                 [i \in 1..Len(SelectSeq(signature, IsNotSelf)) |->
                    decorated_field(SelectSeq(signature, IsNotSelf)[i])])

\* The longest parameter list of a sampled tool
MaxParams == 2

\* The Field(...) expressions sampled: well-formed ones, and one each
\* without a name, without a description, with a type that is none
FieldArgs ==
  [name : {"a", "b"}, description : {"d"},
   field_type : {"integer", "string"}, required : BOOLEAN,
   default_value : {NoneValue, Int(<<"1">>)}]
    \cup
  [name : {"", "a"}, description : {"", "d"},
   field_type : {"nope", "integer"}, required : {TRUE},
   default_value : {NoneValue}]

ConstructCalls ==
  {[fn |-> "BaseTool.__init__",
    arg |-> [name |-> nd[1], description |-> nd[2], params |-> field_args],
    outs |-> <<>>] :
     nd \in {<<"x", "d">>, <<"", "d">>, <<"x", "">>},
     field_args \in UNION {[1..k -> FieldArgs] : k \in 0..MaxParams}}

\* The parameters of the decorated functions sampled: annotated or not,
\* without a default, with the default None, with the default 1
SignatureParams ==
  [name : {"a", "b", "self"}, annotation : {"int", "str", "empty", "bytes"},
   default : {"empty", "none", "int"}]

\* The parameter lists Python accepts in a def: no name twice, no
\* parameter without a default after one with a default
Signatures ==
  {sig \in UNION {[1..k -> SignatureParams] : k \in 0..MaxParams} :
     /\ \A i, j \in 1..Len(sig) : sig[i].name = sig[j].name => i = j
     /\ \A i, j \in 1..Len(sig) :
          (i < j /\ sig[i].default # "empty") => sig[j].default # "empty"}

DecorateCalls ==
  {[fn |-> "tool",
    arg |-> [name |-> nd[1], description |-> nd[2], params |-> sig],
    outs |-> <<>>] :
     nd \in {<<"x", "d">>, <<"", "d">>, <<"x", "">>}, sig \in Signatures}

\* The longest roster given to send_message on its own
MaxRoster == 3

\* Rosters of distinct agents
Rosters ==
  {members \in UNION {[1..k -> Agents] : k \in 1..MaxRoster} :
     \A i, j \in 1..Len(members) : members[i] = members[j] => i = j}

\* send_message called by a roster member with the identity of a roster
\* member as agent_name, the manager being the one member that may ask
\* the user
SendAloneCalls ==
  UNION {{[fn |-> "send_message",
           arg |-> [members |-> members, manager |-> members[mg],
                    sender |-> members[sd],
                    agent_name |-> identity(members[to])],
           outs |-> <<>>] :
            mg \in 1..Len(members), sd \in 1..Len(members),
            to \in 1..Len(members)} : members \in Rosters}

\* The agents as constructed and assembled, and one helper about to be called
CallInit ==
  /\ Assembled([manager |-> "ann", members |-> <<"ann", "bob">>,
                output_file |-> OutTxt])
  /\ \/ invocation \in SanitizeCalls
     \/ invocation \in ScanCalls
     \/ invocation \in ExtractCalls
     \/ invocation \in DispatchCalls
     \/ invocation \in RunCalls
     \/ invocation \in SendAloneCalls
     \/ invocation \in ConstructCalls
     \/ invocation \in DecorateCalls

\* clean = self._sanitize_tool_call(raw), and once more on what it returned
Sanitize ==
  /\ invocation.fn = "_sanitize_tool_call"
  /\ Len(invocation.outs) < 2
  /\ invocation' =
       [invocation EXCEPT !.outs =
          Append(@, sanitize_text(IF @ = <<>> THEN invocation.arg ELSE @[1]))]
  /\ UNCHANGED <<planning, members_text, clan, ask_user, clan_connected,
                 rawmembers, user_task, stack, input_readers, history, output>>

\* fixed = self._escape_string_newlines(s)
EscapeScan ==
  /\ invocation.fn = "_escape_string_newlines"
  /\ invocation.outs = <<>>
  /\ invocation' =
       [invocation EXCEPT !.outs = <<escape_string_newlines(invocation.arg)>>]
  /\ UNCHANGED <<planning, members_text, clan, ask_user, clan_connected,
                 rawmembers, user_task, stack, input_readers, history, output>>

\* tool_calls = self.extract_all_tool_calls(response)
Extract ==
  /\ invocation.fn = "extract_all_tool_calls"
  /\ invocation.outs = <<>>
  /\ invocation' =
       [invocation EXCEPT !.outs = <<extract_all_tool_calls(invocation.arg)>>]
  /\ UNCHANGED <<planning, members_text, clan, ask_user, clan_connected,
                 rawmembers, user_task, stack, input_readers, history, output>>

\* result = self.execute_tool_call(call): what the dispatch does, up to
\* the input() or the member.unleash(msg) it may end in
DispatchAlone ==
  /\ invocation.fn = "execute_tool_call"
  /\ invocation.outs = <<>>
  /\ invocation' =
       [invocation EXCEPT !.outs =
          <<execute_tool_call(invocation.arg.self,
                              rawmembers[invocation.arg.self], ask_user,
                              invocation.arg.call)>>]
  /\ UNCHANGED <<planning, members_text, clan, ask_user, clan_connected,
                 rawmembers, user_task, stack, input_readers, history, output>>

\* tool.run(**kwargs), called by the user of the tool
RunTool ==
  /\ invocation.fn = "BaseTool.run"
  /\ invocation.outs = <<>>
  /\ invocation' =
       [invocation EXCEPT !.outs =
          <<base_tool_run(invocation.arg.tool, invocation.arg.kwargs)>>]
  /\ UNCHANGED <<planning, members_text, clan, ask_user, clan_connected,
                 rawmembers, user_task, stack, input_readers, history, output>>

\* self.send_message(agent_name, message, sender=self.identity) up to the
\* member.unleash(msg) it may end in, self.rawmembers being the roster
SendAlone ==
  /\ invocation.fn = "send_message"
  /\ invocation.outs = <<>>
  /\ invocation' =
       [invocation EXCEPT !.outs =
          <<send_message(invocation.arg.members,
                         [a \in Agents |-> a = invocation.arg.manager],
                         Str(invocation.arg.agent_name), sHi, NoneValue,
                         identity(invocation.arg.sender))>>]
  /\ UNCHANGED <<planning, members_text, clan, ask_user, clan_connected,
                 rawmembers, user_task, stack, input_readers, history, output>>

\* X(): the constructor of a BaseTool subclass X written with a Field list
Construct ==
  /\ invocation.fn = "BaseTool.__init__"
  /\ invocation.outs = <<>>
  /\ invocation' =
       [invocation EXCEPT !.outs =
          <<construct_tool(invocation.arg.name, invocation.arg.description,
                           invocation.arg.params)>>]
  /\ UNCHANGED <<planning, members_text, clan, ask_user, clan_connected,
                 rawmembers, user_task, stack, input_readers, history, output>>

\* tool(name, description)(func)(): the decorator, then the constructor of
\* the class it returns
Decorate ==
  /\ invocation.fn = "tool"
  /\ invocation.outs = <<>>
  /\ invocation' =
       [invocation EXCEPT !.outs =
          <<decorate_tool(invocation.arg.name, invocation.arg.description,
                          invocation.arg.params)>>]
  /\ UNCHANGED <<planning, members_text, clan, ask_user, clan_connected,
                 rawmembers, user_task, stack, input_readers, history, output>>

CallNext ==
  \/ Sanitize
  \/ EscapeScan
  \/ Extract
  \/ DispatchAlone
  \/ RunTool
  \/ SendAlone
  \/ Construct
  \/ Decorate

CallSpec == CallInit /\ [][CallNext]_vars

\* _sanitize_tool_call has returned for the raw text
Sanitized == invocation.fn = "_sanitize_tool_call" /\ Len(invocation.outs) >= 1

\* C27: the repairer is idempotent: applied to what it returned, it returns
\* the same text, whichever stage produced it.
C27_RepairIdempotent ==
  (invocation.fn = "_sanitize_tool_call" /\ Len(invocation.outs) = 2)
    => invocation.outs[2] = invocation.outs[1]

\* C28: when no stage of the cascade yields a parsable text, the repairer
\* returns the raw text unchanged, character for character.
C28_GiveUpReturnsRaw ==
  (Sanitized /\ ~parses(invocation.outs[1]))
    => invocation.outs[1] = invocation.arg

\* The quote state in which the scan reads character i of s: outside any
\* string ("out"), inside a string opened by a double or a single quote
\* ("dq", "sq"), or inside such a string right after a backslash ("dq_esc",
\* "sq_esc")
RECURSIVE QuoteState(_, _)
QuoteState(s, i) ==
  IF i = 1 THEN "out"
  ELSE LET before == QuoteState(s, i - 1)
           ch == s[i - 1]
       IN CASE before = "out" ->
                 IF ch = "\"" THEN "dq" ELSE IF ch = "'" THEN "sq" ELSE "out"
            [] before = "dq" ->
                 IF ch = "\\" THEN "dq_esc" ELSE IF ch = "\"" THEN "out" ELSE "dq"
            [] before = "sq" ->
                 IF ch = "\\" THEN "sq_esc" ELSE IF ch = "'" THEN "out" ELSE "sq"
            [] before = "dq_esc" -> "dq"
            [] before = "sq_esc" -> "sq"

Escaped(s, i) == QuoteState(s, i) \in {"dq_esc", "sq_esc"}

\* Character i is the line feed of a carriage return, line feed pair that
\* is one newline
SecondOfNewline(s, i) ==
  /\ i > 1 /\ s[i] = "\n" /\ s[i - 1] = "\r"
  /\ ~Escaped(s, i) /\ ~Escaped(s, i - 1)

\* What character i of s becomes: an escaped character stays, a newline
\* inside a string becomes backslash n, a newline outside becomes one
\* space, every other character stays
ScanImage(s, i) ==
  IF Escaped(s, i) THEN <<s[i]>>
  ELSE IF SecondOfNewline(s, i) THEN <<>>
  ELSE IF s[i] \in {"\r", "\n"}
       THEN IF QuoteState(s, i) = "out" THEN <<" ">> ELSE <<"\\", "n">>
  ELSE <<s[i]>>

RECURSIVE ScanImages(_, _)
ScanImages(s, n) ==
  IF n = 0 THEN <<>> ELSE ScanImages(s, n - 1) \o ScanImage(s, n)

\* The value of the body of a string literal: backslash n is a newline, a
\* backslash before a quote or a backslash gives that character
RECURSIVE literal_value(_)
literal_value(body) ==
  IF body = <<>> THEN <<>>
  ELSE IF Head(body) = "\\" /\ Len(body) >= 2 /\ body[2] \in {"n", "\"", "'", "\\"}
       THEN <<IF body[2] = "n" THEN "\n" ELSE body[2]>>
              \o literal_value(SubSeq(body, 3, Len(body)))
  ELSE <<Head(body)>> \o literal_value(Tail(body))

\* The text between the first and the last double quote
Quoted(text) ==
  SubSeq(text, CharAt(text, "\"", 1) + 1,
         (CHOOSE j \in 1..Len(text) :
            text[j] = "\"" /\ \A k \in (j + 1)..Len(text) : text[k] # "\"") - 1)

\* Calls whose double-quoted argument holds a literal newline
NewlineCalls ==
  { <<"f","(","a","=","\"","x","\n","y","\"",")">>,
    <<"f","(","a","=","\"","x","\r","\n","y","\"",")">>,
    <<"f","(","a","=","\"","x","\\","\"","y","\n","z","\"",")">>,
    <<"f","(","\n","\"","a","\n","b","\"","\n",")">> }

\* C29: the scan keeps the quote state character by character: a newline
\* inside a string becomes backslash n, a newline outside any string one
\* space, a backslash escape inside a string (an escaped quote too) stays
\* and does not end the string; a call with a newline inside a quoted
\* argument comes out of the repair parsable, the value of the argument
\* still holding the newline.
C29_NewlineScan ==
  /\ (invocation.fn = "_escape_string_newlines" /\ invocation.outs # <<>>)
       => invocation.outs[1] = ScanImages(invocation.arg, Len(invocation.arg))
  /\ (Sanitized /\ invocation.arg \in NewlineCalls)
       => /\ invocation.outs[1] = escape_string_newlines(invocation.arg)
          /\ parses(invocation.outs[1])
          /\ \E i \in 1..Len(literal_value(Quoted(invocation.outs[1]))) :
               literal_value(Quoted(invocation.outs[1]))[i] = "\n"

\* The scan has met a newline outside a string, an escaped quote inside a
\* string, and a newline inside that string
C29_Witness ==
  /\ invocation.fn = "_escape_string_newlines"
  /\ invocation.arg = <<"\n", "\"", "\\", "\"", "\n">>
  /\ invocation.outs = << <<" ", "\"", "\\", "\"", "\\", "n">> >>

\* The closing tags of content, and the nearest closing tag before c
Closes(content) == {c \in 1..Len(content) : content[c] = "</tool>"}

PrevClose(content, c) ==
  IF \E p \in Closes(content) : p < c
  THEN CHOOSE p \in Closes(content) :
         p < c /\ \A q \in Closes(content) : q < c => q <= p
  ELSE 0

\* The opening tag of the region closing tag c ends: the first one after
\* the closing tag before c; 0 when c ends no region
RegionOpen(content, c) ==
  IF \E o \in (PrevClose(content, c) + 1)..(c - 1) : content[o] = "<tool>"
  THEN FirstAt(content, "<tool>", PrevClose(content, c) + 1)
  ELSE 0

RegionCloses(content) ==
  {c \in Closes(content) : RegionOpen(content, c) # 0}

\* t is s without the blanks and newlines at its two ends
IsTrimOf(t, s) ==
  \E i \in 1..(Len(s) + 1), j \in 0..Len(s) :
    /\ t = SubSeq(s, i, j)
    /\ \A k \in 1..(i - 1) : IsBlank(s[k])
    /\ \A k \in (j + 1)..Len(s) : IsBlank(s[k])
    /\ t # <<>> => ~IsBlank(t[1]) /\ ~IsBlank(t[Len(t)])

\* C30: the extractor returns one entry per non-overlapping region of the
\* text, in document order, each the trimmed content of its region, also
\* when the region spans lines; a text without a complete region yields
\* the empty sequence.
C30_ExtractorRegions ==
  (invocation.fn = "extract_all_tool_calls" /\ invocation.outs # <<>>)
    => /\ Len(invocation.outs[1]) = Cardinality(RegionCloses(invocation.arg))
       /\ \A c \in RegionCloses(invocation.arg) :
            IsTrimOf(invocation.outs[1]
                       [Cardinality({d \in RegionCloses(invocation.arg) : d <= c})],
                     SubSeq(invocation.arg,
                            RegionOpen(invocation.arg, c) + 1, c - 1))

\* Two regions, the first over two lines, extracted in order and trimmed
C30_Witness ==
  /\ invocation.fn = "extract_all_tool_calls"
  /\ invocation.arg = <<"<tool>", "\n", "x", "</tool>", "<tool>", "</tool>">>
  /\ invocation.outs = << << <<"x">>, <<>> >> >>

\* execute_tool_call has returned, or has called input() or member.unleash
Dispatched == invocation.fn = "execute_tool_call" /\ invocation.outs # <<>>

\* The call as ast.parse gives it, and what the dispatch did
DispatchedTree == ParsedCall(invocation.arg.call)

DispatchEffect == invocation.outs[1]

BuiltIns == {"send_message", "ask_user", "pass_result"}

\* The values of a list of arguments
ValuesOf(arguments) == {arguments[i].value : i \in 1..Len(arguments)}

\* C21: a call with a positional or keyword argument that is no literal
\* is answered with an error text and neither a tool nor a built-in is
\* invoked for it; whatever is invoked receives only values written as
\* literals in the call text.
C21_NonLiteralRejected ==
  Dispatched =>
    /\ (DispatchedTree.kind = "Call" /\ ~AllLiteral(DispatchedTree)) =>
         /\ DispatchEffect.kind = "return"
         /\ IsErrorText(DispatchEffect.value)
         /\ DispatchEffect.invoked = <<>>
    /\ \A k \in 1..Len(DispatchEffect.invoked) :
         /\ \A i \in 1..Len(DispatchEffect.invoked[k].args) :
              /\ DispatchEffect.invoked[k].args[i].lit
              /\ DispatchEffect.invoked[k].args[i].value
                   \in ValuesOf(DispatchedTree.args)
         /\ \A i \in 1..Len(DispatchEffect.invoked[k].keywords) :
              /\ DispatchEffect.invoked[k].keywords[i].lit
              /\ DispatchEffect.invoked[k].keywords[i].value
                   \in ValuesOf(DispatchedTree.keywords)

\* A built-in called with an identifier for its argument was refused
C21_Witness ==
  /\ Dispatched
  /\ invocation.arg.call = <<"pass_result(result=x)">>
  /\ DispatchEffect.value = ErrorText(Exc(<<"malformed node or string">>))
  /\ DispatchEffect.invoked = <<>>

\* C22: a call named like a built-in is handled by the built-in, also when
\* the agent has a registered tool of that name; any other name is looked
\* up among the registered tools by equality, and a name found in neither
\* gives the not-found text with nothing invoked.
C22_BuiltInsFirst ==
  (Dispatched /\ DispatchedTree.kind = "Call" /\ AllLiteral(DispatchedTree)) =>
    /\ DispatchedTree.func \in BuiltIns =>
         /\ Len(DispatchEffect.invoked) = 1
         /\ DispatchEffect.invoked[1].by = "built-in"
         /\ DispatchEffect.invoked[1].callee = DispatchedTree.func
    /\ DispatchedTree.func \notin BuiltIns =>
         \A k \in 1..Len(DispatchEffect.invoked) :
           /\ DispatchEffect.invoked[k].by = "tool"
           /\ DispatchEffect.invoked[k].callee = DispatchedTree.func
           /\ InList(rawtools(invocation.arg.self), DispatchedTree.func)
    /\ (/\ DispatchedTree.func \notin BuiltIns
        /\ ~InList(rawtools(invocation.arg.self), DispatchedTree.func)) =>
         /\ DispatchEffect.kind = "return"
         /\ DispatchEffect.value =
              Str(<<"Error: tool '", DispatchedTree.func, "' not found.">>)
         /\ DispatchEffect.invoked = <<>>

\* The agent with a tool named pass_result has called pass_result: the
\* built-in answered
C22_Witness ==
  /\ Dispatched
  /\ InList(rawtools(invocation.arg.self), "pass_result")
  /\ invocation.arg.call = <<"pass_result(result=\"done\")">>
  /\ DispatchEffect.value = PassPair(Str(<<"done">>))
  /\ DispatchEffect.invoked[1].by = "built-in"

\* C23: a call text that, repaired, is not parsed as a function call,
\* because it is another kind of expression or because it does not parse,
\* is answered with the one fixed text.
C23_FixedNotACallText ==
  (Dispatched /\ DispatchedTree.kind # "Call") =>
    /\ DispatchEffect.kind = "return"
    /\ DispatchEffect.value = Str(<<"Error: not a valid function call.">>)

\* A call of a registered tool that is no built-in, its arguments literals
ToolDispatched ==
  /\ Dispatched
  /\ DispatchedTree.kind = "Call"
  /\ AllLiteral(DispatchedTree)
  /\ DispatchedTree.func \notin BuiltIns
  /\ InList(rawtools(invocation.arg.self), DispatchedTree.func)

\* The parameter a validation result names
NamedParameter(result) == result.error_message.v[2]

\* C24: the dispatch validates the arguments against the parameter list of
\* the tool before it executes the tool: with a required parameter missing
\* or an argument of the wrong type the entry point is not invoked and the
\* textual result names the parameter; the entry point receives validated
\* keyword arguments only.
C24_DispatchValidates ==
  ToolDispatched =>
    /\ ~validate_parameters(params(DispatchedTree.func),
                            DispatchedTree.keywords, 1).success =>
         /\ DispatchEffect.invoked = <<>>
         /\ DispatchEffect.kind = "return"
         /\ InList(DispatchEffect.value.v,
                   NamedParameter(validate_parameters(params(DispatchedTree.func),
                                                      DispatchedTree.keywords, 1)))
    /\ \A k \in 1..Len(DispatchEffect.invoked) :
         /\ DispatchEffect.invoked[k].args = <<>>
         /\ validate_parameters(params(DispatchedTree.func),
                                DispatchEffect.invoked[k].keywords, 1).success

\* BaseTool.run has returned
Ran == invocation.fn = "BaseTool.run" /\ invocation.outs # <<>>

RanParams == params(invocation.arg.tool)

\* The i-th parameter is required and not given
MissingAt(i) ==
  RanParams[i].required /\ ~HasKey(invocation.arg.kwargs, RanParams[i].name)

\* The i-th parameter is given a value its field does not accept
InvalidAt(i) ==
  /\ HasKey(invocation.arg.kwargs, RanParams[i].name)
  /\ ~validate_value(RanParams[i],
                     KwGet(invocation.arg.kwargs, RanParams[i].name, NoneValue))

\* The first required parameter, in declaration order, that is not given
FirstMissing ==
  CHOOSE i \in 1..Len(RanParams) :
    MissingAt(i) /\ \A j \in 1..(i - 1) : ~MissingAt(j)

\* C25 as stated: run without a required parameter fails, the message
\* names exactly that parameter (of several missing ones the first in
\* declaration order), and the execution function is not called.
C25_MissingRequiredNamed ==
  (Ran /\ \E i \in 1..Len(RanParams) : MissingAt(i)) =>
    /\ ~invocation.outs[1].success
    /\ ~invocation.outs[1].entered
    /\ NamedParameter(invocation.outs[1]) = RanParams[FirstMissing].name

\* C25, amended: run without a required parameter fails and the execution
\* function is not called; the message names the first parameter in
\* declaration order that is a missing required one or is given a value of
\* the wrong type: the first missing required parameter when no parameter
\* declared before it is given an invalid value, else the first such
\* earlier parameter, with the invalid-type message.
C25_FirstOffenceNamed ==
  (Ran /\ \E i \in 1..Len(RanParams) : MissingAt(i)) =>
    /\ ~invocation.outs[1].success
    /\ ~invocation.outs[1].entered
    /\ (\A j \in 1..(FirstMissing - 1) : ~InvalidAt(j)) =>
         invocation.outs[1].error_message =
           Str(<<"Missing required parameter: ", RanParams[FirstMissing].name>>)
    /\ \A j \in 1..(FirstMissing - 1) :
         (InvalidAt(j) /\ \A h \in 1..(j - 1) : ~InvalidAt(h)) =>
           /\ invocation.outs[1].error_message.v[1] = "Invalid type for parameter "
           /\ NamedParameter(invocation.outs[1]) = RanParams[j].name

\* add run without any argument: both required parameters are missing, the
\* first declared is named and the function is not called
C25_Witness ==
  /\ Ran
  /\ invocation.arg = [tool |-> "add", kwargs |-> <<>>]
  /\ invocation.outs[1] =
       ToolResult(FALSE, NoneValue,
                  Str(<<"Missing required parameter: ", "a">>), FALSE)

\* C26: for a well-formed call the callee, a built-in or a registered
\* tool, is invoked exactly once, with the name, the positional values and
\* the keyword values the parse of the text gives: a positional argument
\* reaches the callee as a keyword argument does.
C26_ParsedCallReachesCallee ==
  (/\ Dispatched
   /\ DispatchedTree.kind = "Call"
   /\ AllLiteral(DispatchedTree)
   /\ \/ DispatchedTree.func \in BuiltIns
      \/ InList(rawtools(invocation.arg.self), DispatchedTree.func)) =>
    /\ Len(DispatchEffect.invoked) = 1
    /\ DispatchEffect.invoked[1].callee = DispatchedTree.func
    /\ DispatchEffect.invoked[1].args = DispatchedTree.args
    /\ DispatchEffect.invoked[1].keywords = DispatchedTree.keywords

\* ------------------------------------------------------------------------
\* The planning exchange, the tools as constructed, delegation
\* ------------------------------------------------------------------------

\* An entry of the planning call of Clan.unleash, or one older than it
BeforeExecution(e) == e.loop = 0

\* C31: the planning prompt and the plan response are in no conversation
\* history while loops run and in no history file: the manager's adapter is
\* reset before the planning call (a planning call that fails leaves the
\* planning prompt alone in it) and again before the manager's loop starts,
\* and the plan is with every roster member as its plan field.
C31_PlanningOutsideHistory ==
  /\ \A key \in StoreKeys : \A i \in 1..Len(store[key]) :
       ~BeforeExecution(store[key][i])
  /\ stack # <<>> =>
       \A a \in Agents :
         \/ a # stack[1].agent /\ messages[a] = constructor_messages(a)
         \/ \A i \in 1..Len(messages[a]) : ~BeforeExecution(messages[a][i])
  /\ (stack = <<>> /\ planning_calls = 1) =>
       messages[clan.manager] = <<Entry("prompt", clan.manager, 0, 1)>>
  /\ (stack # <<>> /\ clan.manager # "") =>
       \A a \in Agents :
         InRoster(clan.members, a) =>
           /\ plan[a].ty = "str"
           /\ plan[a] = plan[clan.members[1]]

\* C31 witness: the manager, whose adapter held a prompt before the clan
\* was unleashed, has made a turn of its loop and the history is written
C31_Witness ==
  /\ stack # <<>>
  /\ clan.manager = "ann"
  /\ planning_calls = 1
  /\ stack[1].agent = "ann"
  /\ Len(messages["ann"]) = 3
  /\ messages["ann"][1] = Entry("system_prompt", "ann", 1, 0)
  /\ store[store_key("ann")] = messages["ann"]
  /\ plan["ann"] = Str(<<"plan">>)

\* The loop on top of the stack was started by send_message and has ended
\* by pass_result
MemberPassed ==
  /\ Len(stack) > 1
  /\ Top.pc = "Terminated"
  /\ Top.exit = "pass_result"

\* C33: when the loop of a delegated member has ended by pass_result, the
\* step that follows takes that loop off the stack and leaves the loop of
\* the delegating agent running: the send_message call gets the delivery
\* confirmation as its result, nothing of the turn is lost, and the next
\* call of the turn is the one to dispatch; the loops further down are not
\* touched.  A loop with a call left to dispatch dispatches that call next.
C33_MemberPassResultStaysLocal ==
  /\ [][ MemberPassed =>
           /\ Len(stack') = Len(stack) - 1
           /\ \A d \in 1..(Len(stack) - 2) : stack'[d] = stack[d]
           /\ stack'[Len(stack')] =
                [stack[Len(stack) - 1] EXCEPT
                   !.results = Append(@, Delivered(stack[Len(stack) - 1].matched)),
                   !.tool_outputs =
                     Append(@, ToolOutput(current_call(stack[Len(stack) - 1]),
                                          Delivered(stack[Len(stack) - 1].matched))),
                   !.idx = @ + 1,
                   !.waiting = FALSE] ]_vars
  /\ [][ (Dispatching /\ Top.results # <<>>
                      /\ IsConfirmation(Top.results[Len(Top.results)])) =>
           /\ Len(stack') >= Len(stack)
           /\ stack'[Len(stack)].dispatched =
                Append(Top.dispatched, current_call(Top)) ]_vars

\* C33 witness: the loop of a member ended by pass_result while the sender
\* waits, pass_result being neither the first nor the last call of the
\* member's turn, and a call of the sender's turn is left
C33_Witness ==
  /\ MemberPassed
  /\ Top.dispatched =
       << <<"add(a=1, b=2)">>, <<"pass_result(result=\"done\")">> >>
  /\ Len(Top.tool_calls) = 3
  /\ stack[Len(stack) - 1].pc = "ExecutingTools"
  /\ stack[Len(stack) - 1].waiting
  /\ stack[Len(stack) - 1].idx < Len(stack[Len(stack) - 1].tool_calls)

\* Clan.unleash has returned: the loop of the manager it started has ended
\* without an exception
ClanReturned ==
  /\ clan.manager # ""
  /\ Len(stack) = 1
  /\ stack[1].pc = "Terminated"
  /\ stack[1].exit # "raised"

\* C34: when Clan.unleash has returned, the output file of the clan is
\* empty or holds the text of what the manager's loop returned.
C34_SinkHoldsCoordinatorAnswer ==
  (ClanReturned /\ sink_configured(clan.output_file)) =>
    sink[clan.output_file.v] \in {Str(<<>>), Str(Render(stack[1].ret))}

\* C36: no loop started by send_message is a loop of the agent that sent
\* the message: the sender's loop, still running below it, keeps its
\* adapter's conversation and its task.
C36_NoSelfDelivery ==
  \A d \in 2..Len(stack) :
    /\ stack[d].agent # stack[d - 1].agent
    /\ user_task[stack[d - 1].agent] = stack[d - 1].task

\* C38: the calls extracted from a response are those of the response
\* without its reasoning block: a tool region inside the block is not
\* extracted, and a response with no other region gives no call.
C38_ReasoningNotExtracted ==
  (/\ invocation.fn = "extract_all_tool_calls"
   /\ invocation.outs # <<>>
   /\ invocation.arg \in ReasonedContents) =>
    invocation.outs[1] = extract_all_tool_calls(RemoveThink(invocation.arg, 1))

\* The tag a message sent by agent a begins with
SenderTag(a) == <<"FROM: ">> \o identity(a) \o <<" | ">>

\* C37: the message a send_message dispatch hands to a member's loop
\* begins with the tag of the agent that dispatched the call, whatever the
\* call text gives as sender, message or resource.
C37_TaggedWithDispatcher ==
  (Dispatched /\ DispatchEffect.kind = "unleash") =>
    /\ Len(DispatchEffect.msg) > Len(SenderTag(invocation.arg.self))
    /\ SubSeq(DispatchEffect.msg, 1, Len(SenderTag(invocation.arg.self))) =
         SenderTag(invocation.arg.self)

\* C37 witness: ann dispatches a call that names Bob as its sender, and the
\* message handed to bob's loop is tagged with Ann
C37_Witness ==
  /\ Dispatched
  /\ invocation.arg =
       [self |-> "ann",
        call |-> <<"send_message(agent_name=\"bob\", message=\"hi\", sender=\"Bob\")">>]
  /\ DispatchEffect.kind = "unleash"
  /\ DispatchEffect.member = "bob"
  /\ DispatchEffect.msg = <<"FROM: ", "A", "n", "n", " | ", "hi">>

\* C35: send_message on a name equal to the identity of a roster member
\* starts the loop of a member of that identity.
C35_ExactIdentityDelivered ==
  (/\ invocation.fn = "send_message"
   /\ invocation.outs # <<>>
   /\ \E i \in 1..Len(invocation.arg.members) :
        identity(invocation.arg.members[i]) = invocation.arg.agent_name) =>
    /\ invocation.outs[1].kind = "unleash"
    /\ identity(invocation.outs[1].member) = invocation.arg.agent_name

\* No required parameter with a default value, no parameter name twice
ToolSpecInvariant(fields) ==
  /\ \A i \in 1..Len(fields) :
       fields[i].required => fields[i].default_value = NoneValue
  /\ \A i, j \in 1..Len(fields) : fields[i].name = fields[j].name => i = j

\* C32: the params of every tool that has been constructed, by the
\* constructor of a BaseTool subclass or through the decorator, hold no
\* required parameter with a default value and no name twice.
C32_ToolSpecInvariant ==
  (/\ invocation.fn \in {"BaseTool.__init__", "tool"}
   /\ invocation.outs # <<>>
   /\ invocation.outs[1].constructed) =>
    ToolSpecInvariant(invocation.outs[1].params)
====
